---- MODULE Spec2Model ----
(***************************************************************************)
(* InfiniDrive storage gateway: the file catalog (files, chunks, bots      *)
(* tables of backend/src/db/schema.sql), the upload, read, delete and fork *)
(* handlers of backend/src/routes and of the API-key (v1) routes, and the  *)
(* Telegram transport they call.  One action is one HTTP request handled   *)
(* from its first statement to its response.                               *)
(*                                                                         *)
(* Scaling: byte payloads are short sequences of small integers and        *)
(* CHUNK_SIZE is a few bytes instead of 20 MiB; timestamps are a bounded   *)
(* clock.  Columns that no modelled handler reads back (file_name,         *)
(* file_path, folder_id, device_id, chunk_hash, created_at) are left out.  *)
(***************************************************************************)
EXTENDS Integers, Sequences, FiniteSets, TLC

\* ------------------------------------------------------------------ bounds
MaxFiles == 2
MaxMsgs == 3
MaxForkMsgs == 4
MaxClock == 2
MaxLen == 4
MaxChunkSize == 3
MaxMs == 6
MaxShares == 1
MaxServed == 3
MaxLimit == 2

\* ------------------------------------------------------- program constants
\* const CHUNK_SIZE = 20 * 1024 * 1024, scaled to bytes of the model
CHUNK_SIZE == 2
\* RATE_LIMIT_MS, in units of 1500 ms
RATE_LIMIT_MS == 2

NULL == 0
NoChannel == "NULL"

Users == {"u1", "u2"}
Bots == {"b1", "b2", "b3"}
Hashes == {"h1", "h2", "h3"}
\* upload/init requests in flight
Reqs == {"q1", "q2"}
\* requests in flight that call telegramRequest
Calls == {"k1", "k2", "k3"}

\* The content a client holds for each content hash (SHA-256 is modelled as
\* an injective name of the content).  Bytes differ by position so that a
\* wrong offset is visible in a body.
Payload(h) ==
  IF h = "h1" THEN <<1, 2, 3>> ELSE IF h = "h2" THEN <<6, 7>> ELSE <<1, 2, 3, 4, 5>>

\* The row of the bots table created by POST /api/bots/add for each bot.
BotOwner(b) == IF b = "b3" THEN "u2" ELSE "u1"
BotChannel(b) == IF b = "b1" THEN "c1" ELSE IF b = "b2" THEN "c2" ELSE "c3"

VARIABLES
  bots,       \* bots table: bot_id -> row
  scanOrder,  \* order in which the database returns rows with equal sort keys
  files,      \* files table: sequence of rows, file_id = position
  chunks,     \* chunks table: set of rows, key (file_id, chunk_index)
  tg,         \* Telegram: documents sent so far, message_id = file_id = position
  cache,      \* Cloudflare cache: set of [key, body]
  now,        \* Date.now() / 1000
  completed,  \* file ids for which upload/complete has answered success
  resp,       \* the response of the last request
  split,      \* the client-side chunking loop (handleUpload) in progress
  issued,     \* upload plans answered by upload/init, as the client received them
  throttle,   \* rateLimitMap, and the calls that are inside telegramRequest
  pending,    \* upload/init requests between their dedup lookup and their INSERT
  shares      \* shares table: sequence of rows, share_id = position

vars == <<bots, scanOrder, files, chunks, tg, cache, now, completed, resp, split, issued,
          throttle, pending, shares>>

\* ----------------------------------------------------------------- helpers
Min(a, b) == IF a < b THEN a ELSE b
Max(a, b) == IF a > b THEN a ELSE b

\* Math.floor(file_size / CHUNK_SIZE) + 1 in place of Math.ceil
CeilDivFloorPlusOne(n, c) == (n \div c) + 1

\* Math.ceil(file_size / CHUNK_SIZE) for a positive chunk size
CeilDiv(n, c) == IF n % c = 0 THEN n \div c ELSE (n \div c) + 1

\* JavaScript's remainder a % n (n > 0): the sign follows the dividend
JsRem(a, n) == IF a >= 0 THEN a % n ELSE 0 - ((0 - a) % n)

\* Uint8Array.prototype.slice(start, end) / ArrayBuffer.slice for
\* non-negative arguments, 0-based, end exclusive
Slice(buf, start, end) ==
  LET s == Min(start, Len(buf))
      e == Min(end, Len(buf))
  IN  IF e <= s THEN <<>> ELSE SubSeq(buf, s + 1, e)

\* handleUpload / v1 upload loop body: the bytes of chunk i of a buffer
ChunkSlice(buf, c, i) == Slice(buf, i * c, Min(i * c + c, Len(buf)))

RECURSIVE Concat(_)
Concat(ss) == IF ss = <<>> THEN <<>> ELSE Head(ss) \o Concat(Tail(ss))

FileIds == 1..Len(files)

\* the duplicate lookup with is_deleted = 1 in place of is_deleted = 0
LiveByHashDeleted(u, h) ==
  {f \in FileIds : files[f].user_id = u /\ files[f].file_hash = h /\ files[f].is_deleted}

\* the duplicate lookup without the user_id condition bound to the caller
LiveByHashOtherUser(u, h) ==
  {f \in FileIds : files[f].user_id # u /\ files[f].file_hash = h /\ ~files[f].is_deleted}

\* a duplicate lookup that selects forked_from_file in place of file_id
LiveByHashSource(u, h) ==
  {files[f].forked_from_file :
     f \in {g \in FileIds : /\ files[g].user_id = u /\ files[g].file_hash = h
                            /\ ~files[g].is_deleted /\ files[g].forked_from_file # 0}}

\* a duplicate lookup that matches fully stored files only
LiveByHashComplete(u, h) ==
  {f \in FileIds :
     /\ files[f].user_id = u /\ files[f].file_hash = h /\ ~files[f].is_deleted
     /\ {c.chunk_index : c \in {d \in chunks : d.file_id = f}}
          = 0..(files[f].chunk_count - 1)}

\* SELECT file_id FROM files WHERE user_id = ? AND file_hash = ? AND is_deleted = 0
LiveByHash(u, h) ==
  {f \in FileIds : files[f].user_id = u /\ files[f].file_hash = h /\ ~files[f].is_deleted}

ChunksOf(f) == {c \in chunks : c.file_id = f}
IndicesOf(f) == {c.chunk_index : c \in ChunksOf(f)}

\* WHERE user_id = ? AND is_active = 1 AND health_status = 'healthy'
\* the pool query without is_active = 1
EligibleRemoved(u) ==
  {b \in Bots : bots[b].user_id = u /\ bots[b].health_status = "healthy"}

Eligible(u) ==
  {b \in Bots : bots[b].user_id = u /\ bots[b].is_active /\ bots[b].health_status = "healthy"}

ScanPos(b) == CHOOSE k \in 1..Len(scanOrder) : scanOrder[k] = b

\* ORDER BY last_health_check ASC in place of DESC
BeforeAscending(a, b) ==
  \/ bots[a].last_health_check < bots[b].last_health_check
  \/ /\ bots[a].last_health_check = bots[b].last_health_check
     /\ ScanPos(a) < ScanPos(b)

\* ORDER BY last_health_check DESC: larger first, NULL last, ties in scan order
Before(a, b) ==
  \/ bots[a].last_health_check > bots[b].last_health_check
  \/ /\ bots[a].last_health_check = bots[b].last_health_check
     /\ ScanPos(a) < ScanPos(b)

\* bots.results of the pool query, as a 0-based array
PoolSize(u) == Cardinality(Eligible(u))
PoolAt(u, k) ==
  CHOOSE b \in Eligible(u) : Cardinality({x \in Eligible(u) : Before(x, b)}) = k

\* c.json(...) of a handler; fields a response does not carry keep the default
\* sent is not part of the body: it records that the handler called sendDocument
Blank ==
  [op |-> "none", status |-> 0, err |-> "none", file_id |-> 0,
   duplicate |-> FALSE, uploaded |-> 0, required |-> 0, chunk_index |-> 0,
   message_id |-> 0, plan |-> <<>>, sent |-> FALSE, first |-> 0, last |-> 0,
   body |-> <<>>, calls |-> <<>>, configured |-> FALSE]

Reply(op, status, err) == [Blank EXCEPT !.op = op, !.status = status, !.err = err]

\* -------------------------------------------------------------------- Init
\* Every bot has been added and bound to its channel; nothing is uploaded yet.
InitBots ==
  bots = [b \in Bots |->
            [user_id |-> BotOwner(b), is_active |-> TRUE,
             health_status |-> "healthy", channel_id |-> BotChannel(b),
             last_health_check |-> NULL]]

\* rateLimitMap is empty and no call is in flight; ms is Date.now()
NoCalls ==
  [last |-> [b \in Bots |-> NULL],
   pc |-> [k \in Calls |-> "idle"],
   token |-> [k \in Calls |-> "b1"],
   wake |-> [k \in Calls |-> 0],
   released |-> [k \in Calls |-> 0],
   ms |-> RATE_LIMIT_MS]

\* no upload/init request is in flight
Idle ==
  [pc |-> "idle", user_id |-> "u1", file_hash |-> "h1", is_public |-> FALSE,
   mime_type |-> "none", plan |-> <<>>, pool |-> <<>>]

InitCatalog ==
  /\ files = <<>>
  /\ chunks = {}
  /\ tg = <<>>
  /\ cache = {}
  /\ now = 1
  /\ completed = {}
  /\ resp = Blank
  /\ issued = {}
  /\ throttle = NoCalls
  /\ pending = [q \in Reqs |-> Idle]
  /\ shares = <<>>

NoSplit == [P |-> <<>>, C |-> 1, count |-> 0, parts |-> <<>>]

Init ==
  /\ InitBots
  /\ scanOrder = <<"b1", "b2", "b3">>
  /\ InitCatalog
  /\ split = NoSplit

\* ------------------------------------------------------- POST /upload/init
NewFile(u, h, pub, mime) ==
  [user_id |-> u, file_hash |-> h, file_size |-> Len(Payload(h)),
   chunk_count |-> CeilDiv(Len(Payload(h)), CHUNK_SIZE), mime_type |-> mime,
   is_public |-> pub, is_deleted |-> FALSE, forked_from_file |-> 0,
   fork_count |-> 0, updated_at |-> now]

\* bot_assignments of the response: bots.results[i % bots.results.length]
BotAssignments(u, h) ==
  [k \in 1..CeilDiv(Len(Payload(h)), CHUNK_SIZE) |-> PoolAt(u, (k - 1) % PoolSize(u))]

\* bots.results of the pool query as a sequence
PoolSeq(u) == [k \in 1..PoolSize(u) |-> PoolAt(u, k - 1)]

InitUpload(u, h, pub, mime, folder) ==
  /\ UNCHANGED <<bots, scanOrder, chunks, tg, cache, now, completed, split, throttle, pending, shares>>
  /\ IF LiveByHash(u, h) # {}
     THEN /\ \E f \in LiveByHash(u, h) :
               resp' = [Reply("init", 409, "File already exists")
                          EXCEPT !.file_id = f, !.duplicate = TRUE]
          /\ UNCHANGED <<files, issued>>
     ELSE IF PoolSize(u) = 0
     THEN /\ resp' = Reply("init", 400, "No active bots found")
          /\ UNCHANGED <<files, issued>>
     ELSE IF folder = "foreign"
     THEN /\ resp' = Reply("init", 404, "Folder not found")
          /\ UNCHANGED <<files, issued>>
     ELSE /\ Len(files) < MaxFiles
          /\ files' = Append(files, NewFile(u, h, pub, mime))
          /\ issued' = issued \cup {[file_id |-> Len(files) + 1,
                                     plan |-> BotAssignments(u, h),
                                     pool |-> PoolSeq(u)]}
          /\ resp' = [Reply("init", 200, "none")
                        EXCEPT !.file_id = Len(files) + 1,
                               !.required = CeilDiv(Len(Payload(h)), CHUNK_SIZE),
                               !.plan = BotAssignments(u, h)]

\* POST /upload/init as the two steps another request can come between: the
\* reads (dedup lookup, pool query, folder check) and the INSERT with the reply
InitUploadLookup(q, u, h, pub, mime, folder) ==
  /\ pending[q].pc = "idle"
  /\ UNCHANGED <<bots, scanOrder, files, chunks, tg, cache, now, completed, split, issued,
                 throttle, shares>>
  /\ IF LiveByHash(u, h) # {}
     THEN /\ \E f \in LiveByHash(u, h) :
               resp' = [Reply("init", 409, "File already exists")
                          EXCEPT !.file_id = f, !.duplicate = TRUE]
          /\ UNCHANGED pending
     ELSE IF PoolSize(u) = 0
     THEN /\ resp' = Reply("init", 400, "No active bots found")
          /\ UNCHANGED pending
     ELSE IF folder = "foreign"
     THEN /\ resp' = Reply("init", 404, "Folder not found")
          /\ UNCHANGED pending
     ELSE /\ pending' = [pending EXCEPT ![q] =
                           [pc |-> "insert", user_id |-> u, file_hash |-> h,
                            is_public |-> pub, mime_type |-> mime,
                            plan |-> BotAssignments(u, h), pool |-> PoolSeq(u)]]
          /\ UNCHANGED resp

\* an INSERT that a UNIQUE(user_id, file_hash) constraint would reject
InsertRejectedByUnique(u, h) == LiveByHash(u, h) # {}

\* CREATE TABLE files: file_id is the only key, no constraint on file_hash
InsertRejected(u, h) == FALSE

InitUploadInsert(q) ==
  /\ pending[q].pc = "insert"
  /\ UNCHANGED <<bots, scanOrder, chunks, tg, cache, now, completed, split, throttle,
                 shares>>
  /\ pending' = [pending EXCEPT ![q] = Idle]
  /\ IF InsertRejected(pending[q].user_id, pending[q].file_hash)
     THEN /\ resp' = Reply("init", 500, "Failed to initialize upload")
          /\ UNCHANGED <<files, issued>>
     ELSE /\ Len(files) < MaxFiles
          /\ files' = Append(files, NewFile(pending[q].user_id, pending[q].file_hash,
                                            pending[q].is_public, pending[q].mime_type))
          /\ issued' = issued \cup {[file_id |-> Len(files) + 1,
                                     plan |-> pending[q].plan,
                                     pool |-> pending[q].pool]}
          /\ resp' = [Reply("init", 200, "none")
                        EXCEPT !.file_id = Len(files) + 1,
                               !.required = Len(pending[q].plan),
                               !.plan = pending[q].plan]

\* ------------------------------------------------------ POST /upload/chunk
\* chunk_data of the request: handleUpload's slice for an index of the plan;
\* a request with any other index must carry some non-empty data, since an
\* empty chunk_data is answered 400 before anything else happens
ClientChunk(f, i) ==
  IF i >= 0 /\ ChunkSlice(Payload(files[f].file_hash), CHUNK_SIZE, i) # <<>>
  THEN ChunkSlice(Payload(files[f].file_hash), CHUNK_SIZE, i)
  ELSE <<0>>

\* a file lookup without the user_id condition
OwnedFileAnyUser(u, f) == f \in FileIds

\* SELECT file_id, chunk_count FROM files WHERE file_id = ? AND user_id = ?
OwnedFile(u, f) == f \in FileIds /\ files[f].user_id = u

\* chunk_index >= file.chunk_count
InvalidIndex(f, i) == i >= files[f].chunk_count

\* a channel check that never fires
ChannelMissingNever(b) == FALSE

\* !selectedBot.channel_id
ChannelMissing(b) == bots[b].channel_id = NoChannel

\* bots.results[chunk_index % bots.results.length] is undefined when the
\* JavaScript remainder is negative; reading .channel_id of it throws
SelectedUndefined(u, i) == JsRem(i, PoolSize(u)) < 0
\* the next bot in turn (one per document sent) in place of the bot of the index
SelectedBotInTurn(u, i) == PoolAt(u, Len(tg) % PoolSize(u))

SelectedBot(u, i) == PoolAt(u, JsRem(i, PoolSize(u)))

\* sendDocument: the message Telegram stores for the upload
TgDoc(b, data) == [bot |-> b, chat |-> bots[b].channel_id, doc |-> data, live |-> TRUE]

\* INSERT INTO chunks: the row of the chunk
ChunkRow(f, i, b, data) ==
  [file_id |-> f, chunk_index |-> i, chunk_size |-> Len(data), bot_id |-> b,
   telegram_message_id |-> Len(tg) + 1, telegram_file_id |-> Len(tg) + 1,
   channel_id |-> bots[b].channel_id]

\* UNIQUE(file_id, chunk_index) and PRIMARY KEY chunk_id = chunk_<file>_<index>
ChunkKeyTaken(f, i) == \E c \in chunks : c.file_id = f /\ c.chunk_index = i

\* a sendDocument whose failure the handler does not see
SendThrowsNever(sendOk) == FALSE

\* sendDocument throws: telegramRequest fails or the reply has no document
SendThrows(sendOk) == ~sendOk

UploadChunk(u, f, i, sendOk) ==
  /\ UNCHANGED <<bots, scanOrder, files, cache, now, completed, split, issued, throttle, pending, shares>>
  /\ IF ~OwnedFile(u, f)
     THEN /\ resp' = Reply("chunk", 404, "File not found")
          /\ UNCHANGED <<chunks, tg>>
     ELSE IF InvalidIndex(f, i)
     THEN /\ resp' = Reply("chunk", 400, "Invalid chunk_index")
          /\ UNCHANGED <<chunks, tg>>
     ELSE IF PoolSize(u) = 0
     THEN /\ resp' = Reply("chunk", 400, "No active bots found")
          /\ UNCHANGED <<chunks, tg>>
     ELSE IF SelectedUndefined(u, i)
     THEN /\ resp' = Reply("chunk", 500, "Failed to upload chunk")
          /\ UNCHANGED <<chunks, tg>>
     ELSE IF ChannelMissing(SelectedBot(u, i))
     THEN /\ resp' = Reply("chunk", 400, "Bot channel not configured")
          /\ UNCHANGED <<chunks, tg>>
     ELSE IF SendThrows(sendOk)
     THEN /\ resp' = [Reply("chunk", 500, "Failed to upload chunk") EXCEPT !.sent = TRUE]
          /\ UNCHANGED <<chunks, tg>>
     ELSE /\ Len(tg) < MaxMsgs
          /\ tg' = Append(tg, TgDoc(SelectedBot(u, i), ClientChunk(f, i)))
          /\ IF ChunkKeyTaken(f, i)
             THEN /\ resp' = [Reply("chunk", 500, "Failed to upload chunk")
                                EXCEPT !.sent = TRUE]
                  /\ UNCHANGED chunks
             ELSE /\ chunks' = chunks \cup
                        {ChunkRow(f, i, SelectedBot(u, i), ClientChunk(f, i))}
                  /\ resp' = [Reply("chunk", 200, "none")
                                EXCEPT !.chunk_index = i, !.message_id = Len(tg) + 1,
                                       !.sent = TRUE]

\* handleUpload's loop over the plan: each index is sent once
ClientUploadChunk(u, f, i) == i \notin IndicesOf(f) /\ UploadChunk(u, f, i, TRUE)

\* POST /upload/chunk as the two steps another request can come between.
\* First step: the request passes the ownership, index, pool and channel
\* checks and its sendDocument returns; the row to insert is fixed from here.
UploadChunkSend(q, u, f, i) ==
  /\ pending[q].pc = "idle"
  /\ OwnedFile(u, f) /\ ~InvalidIndex(f, i)
  /\ PoolSize(u) # 0 /\ ~SelectedUndefined(u, i)
  /\ ~ChannelMissing(SelectedBot(u, i))
  /\ Len(tg) < MaxMsgs
  /\ tg' = Append(tg, TgDoc(SelectedBot(u, i), ClientChunk(f, i)))
  /\ pending' = [pending EXCEPT ![q] =
                   [pc |-> "sent",
                    row |-> ChunkRow(f, i, SelectedBot(u, i), ClientChunk(f, i))]]
  /\ UNCHANGED <<bots, scanOrder, files, chunks, cache, now, completed, resp, split,
                 issued, throttle, shares>>

\* Second step: INSERT INTO chunks, rejected by UNIQUE(file_id, chunk_index)
\* when a row of the key is there by now, and the reply
UploadChunkInsert(q) ==
  /\ pending[q].pc = "sent"
  /\ pending' = [pending EXCEPT ![q] = Idle]
  /\ UNCHANGED <<bots, scanOrder, files, tg, cache, now, completed, split, issued,
                 throttle, shares>>
  /\ IF ChunkKeyTaken(pending[q].row.file_id, pending[q].row.chunk_index)
     THEN /\ resp' = [Reply("chunk", 500, "Failed to upload chunk") EXCEPT !.sent = TRUE]
          /\ UNCHANGED chunks
     ELSE /\ chunks' = chunks \cup {pending[q].row}
          /\ resp' = [Reply("chunk", 200, "none")
                        EXCEPT !.chunk_index = pending[q].row.chunk_index,
                               !.message_id = pending[q].row.telegram_message_id,
                               !.sent = TRUE]

\* --------------------------------------------------- POST /upload/complete
\* the count check against file_size in place of chunk_count
CountMismatchWrongColumn(f) == Cardinality(ChunksOf(f)) # files[f].file_size

\* chunks?.count !== file.chunk_count
CountMismatch(f) == Cardinality(ChunksOf(f)) # files[f].chunk_count

CompleteUpload(u, f) ==
  /\ UNCHANGED <<bots, scanOrder, chunks, tg, cache, now, split, issued, throttle, pending, shares>>
  /\ IF ~OwnedFile(u, f)
     THEN /\ resp' = Reply("complete", 404, "File not found")
          /\ UNCHANGED <<files, completed>>
     ELSE IF CountMismatch(f)
     THEN /\ resp' = [Reply("complete", 400, "Not all chunks uploaded")
                        EXCEPT !.uploaded = Cardinality(ChunksOf(f)),
                               !.required = files[f].chunk_count]
          /\ UNCHANGED <<files, completed>>
     ELSE /\ files' = [files EXCEPT ![f].updated_at = now]
          /\ completed' = completed \cup {f}
          /\ resp' = [Reply("complete", 200, "none") EXCEPT !.file_id = f]

\* ------------------------------------------------ API-key (v1) upload path
\* The v1 handlers write chunk rows to a table file_chunks and set a column
\* files.status.  schema.sql and the migrations create neither, so D1 rejects
\* these statements and the handler's catch answers 500.

\* POST /api/v1/files/upload/init: no pool query and no folder check
V1InitUpload(u, h, canWrite) ==
  /\ UNCHANGED <<bots, scanOrder, chunks, tg, cache, now, completed, split, issued,
                 throttle, pending, shares>>
  /\ IF ~canWrite
     THEN /\ resp' = Reply("v1init", 403, "Write permission required")
          /\ UNCHANGED files
     ELSE IF LiveByHash(u, h) # {}
     THEN /\ \E f \in LiveByHash(u, h) :
               resp' = [Reply("v1init", 200, "none")
                          EXCEPT !.file_id = f, !.duplicate = TRUE]
          /\ UNCHANGED files
     ELSE /\ Len(files) < MaxFiles
          /\ files' = Append(files, NewFile(u, h, FALSE, "application/octet-stream"))
          /\ resp' = [Reply("v1init", 200, "none")
                        EXCEPT !.file_id = Len(files) + 1,
                               !.required = CeilDiv(Len(Payload(h)), CHUNK_SIZE)]

\* POST /api/v1/files/upload: the File row is inserted, chunk 0 is sent to the
\* first bot of the pool and the INSERT INTO file_chunks that follows throws
V1Upload(u, h, folder, canWrite, sendOk) ==
  /\ UNCHANGED <<bots, scanOrder, chunks, cache, now, completed, split, issued, throttle, pending, shares>>
  /\ IF ~canWrite
     THEN /\ resp' = Reply("v1upload", 403, "Write permission required")
          /\ UNCHANGED <<files, tg>>
     ELSE IF LiveByHash(u, h) # {}
     THEN /\ \E f \in LiveByHash(u, h) :
               resp' = [Reply("v1upload", 200, "none")
                          EXCEPT !.file_id = f, !.duplicate = TRUE]
          /\ UNCHANGED <<files, tg>>
     ELSE IF PoolSize(u) = 0
     THEN /\ resp' = Reply("v1upload", 400, "No active bots configured")
          /\ UNCHANGED <<files, tg>>
     ELSE IF folder = "foreign"
     THEN /\ resp' = Reply("v1upload", 404, "Folder not found")
          /\ UNCHANGED <<files, tg>>
     ELSE /\ Len(files) < MaxFiles
          /\ files' = Append(files, NewFile(u, h, FALSE, "application/octet-stream"))
          /\ IF ChannelMissing(PoolAt(u, 0))
             THEN /\ resp' = Reply("v1upload", 400, "Bot has no channel configured")
                  /\ UNCHANGED tg
             ELSE IF ~sendOk
             THEN /\ resp' = [Reply("v1upload", 500, "Upload failed") EXCEPT !.sent = TRUE]
                  /\ UNCHANGED tg
             ELSE /\ Len(tg) < MaxMsgs
                  /\ tg' = Append(tg, TgDoc(PoolAt(u, 0),
                                            ChunkSlice(Payload(h), CHUNK_SIZE, 0)))
                  /\ resp' = [Reply("v1upload", 500, "Upload failed") EXCEPT !.sent = TRUE]

\* POST /api/v1/files/upload/chunk: no comparison of chunk_index with chunk_count
V1UploadChunk(u, f, i, sendOk) ==
  /\ UNCHANGED <<bots, scanOrder, files, chunks, cache, now, completed, split, issued,
                 throttle, pending, shares>>
  /\ IF ~OwnedFile(u, f)
     THEN /\ resp' = Reply("v1chunk", 404, "File not found")
          /\ UNCHANGED tg
     ELSE IF PoolSize(u) = 0
     THEN /\ resp' = Reply("v1chunk", 400, "No active bots")
          /\ UNCHANGED tg
     ELSE IF SelectedUndefined(u, i)
     THEN /\ resp' = Reply("v1chunk", 500, "Chunk upload failed")
          /\ UNCHANGED tg
     ELSE IF ChannelMissing(SelectedBot(u, i))
     THEN /\ resp' = Reply("v1chunk", 400, "Bot channel not configured")
          /\ UNCHANGED tg
     ELSE IF ~sendOk
     THEN /\ resp' = [Reply("v1chunk", 500, "Chunk upload failed") EXCEPT !.sent = TRUE]
          /\ UNCHANGED tg
     ELSE /\ Len(tg) < MaxMsgs
          /\ tg' = Append(tg, TgDoc(SelectedBot(u, i), ClientChunk(f, i)))
          /\ resp' = [Reply("v1chunk", 500, "Chunk upload failed") EXCEPT !.sent = TRUE]

\* POST /api/v1/files/upload/complete: one UPDATE of files.status, no count query
V1CompleteUpload(u, f) ==
  /\ UNCHANGED <<bots, scanOrder, files, chunks, tg, cache, now, completed, split,
                 issued, throttle, pending, shares>>
  /\ resp' = Reply("v1complete", 500, "Failed to complete upload")

\* ------------------------------------------- DELETE /:file_id (soft delete)
DeleteFile(u, f) ==
  /\ UNCHANGED <<bots, scanOrder, chunks, tg, cache, now, completed, split, issued,
                 throttle, pending, shares>>
  /\ IF ~OwnedFile(u, f)
     THEN /\ resp' = Reply("delete", 404, "File not found")
          /\ UNCHANGED files
     ELSE /\ files' = [files EXCEPT ![f].is_deleted = TRUE, ![f].updated_at = now]
          /\ resp' = Reply("delete", 200, "none")

\* DELETE /api/v1/files/:file_id: UPDATE ... WHERE file_id = ? AND user_id = ?
V1DeleteFile(u, f, canWrite) ==
  /\ UNCHANGED <<bots, scanOrder, chunks, tg, cache, now, completed, split, issued,
                 throttle, pending, shares>>
  /\ IF ~canWrite
     THEN /\ resp' = Reply("v1delete", 403, "Write permission required")
          /\ UNCHANGED files
     ELSE /\ files' = IF OwnedFile(u, f)
                      THEN [files EXCEPT ![f].is_deleted = TRUE, ![f].updated_at = now]
                      ELSE files
          /\ resp' = [Reply("v1delete", 200, "none") EXCEPT !.file_id = f]

\* ------------------------------------------------ ordered chunk result sets
\* ORDER BY chunk_index ASC: the k-th row (0-based) of a set of chunk rows
\* the rows in the order they were written (message ids grow with time)
NthChunkWritten(S, k) ==
  CHOOSE c \in S :
    Cardinality({d \in S : d.telegram_message_id < c.telegram_message_id}) = k

NthChunk(S, k) ==
  CHOOSE c \in S : Cardinality({d \in S : d.chunk_index < c.chunk_index}) = k

\* downloadFile(bot_token_enc, telegram_file_id): the bytes of the document
TgBytes(c) == tg[c.telegram_file_id].doc

\* ------------------------------------------- POST /community/:file_id/fork
\* userBots.results[i % userBots.results.length].channel_id is null
ForkNoChannel(u, j) == bots[PoolAt(u, j % PoolSize(u))].channel_id = NoChannel

\* iterations of the copy loop that run to their INSERT when the transport
\* fails in iteration `good` (good = number of source chunks: never)
ForkCopied(u, f, good) ==
  LET stops == {j \in 0..(Cardinality(ChunksOf(f)) - 1) :
                  ForkNoChannel(u, j) \/ ~tg[NthChunk(ChunksOf(f), j).telegram_file_id].live}
               \cup {good}
  IN  CHOOSE m \in stops : \A x \in stops : m <= x

ForkDocs(u, f, m) ==
  [j \in 1..m |-> TgDoc(PoolAt(u, (j - 1) % PoolSize(u)),
                        TgBytes(NthChunk(ChunksOf(f), j - 1)))]

\* the copy loop with every chunk sent through userBots.results[0]
ForkRowsFirstBot(u, f, nf, m) ==
  {[file_id |-> nf,
    chunk_index |-> NthChunk(ChunksOf(f), j).chunk_index,
    chunk_size |-> NthChunk(ChunksOf(f), j).chunk_size,
    bot_id |-> PoolAt(u, 0),
    telegram_message_id |-> Len(tg) + 1 + j,
    telegram_file_id |-> Len(tg) + 1 + j,
    channel_id |-> bots[PoolAt(u, 0)].channel_id] : j \in 0..(m - 1)}

\* the copy loop re-pointing the source rows at the new documents instead of
\* inserting rows for the new file
ForkRowsOnSource(u, f, nf, m) ==
  {[file_id |-> f,
    chunk_index |-> NthChunk(ChunksOf(f), j).chunk_index,
    chunk_size |-> NthChunk(ChunksOf(f), j).chunk_size,
    bot_id |-> PoolAt(u, j % PoolSize(u)),
    telegram_message_id |-> Len(tg) + 1 + j,
    telegram_file_id |-> Len(tg) + 1 + j,
    channel_id |-> bots[PoolAt(u, j % PoolSize(u))].channel_id] : j \in 0..(m - 1)}

\* a copy loop whose failure removes the rows it has inserted
ForkRowsRolledBack(u, f, nf, m) ==
  IF m < Cardinality(ChunksOf(f)) THEN {}
  ELSE {[file_id |-> nf,
         chunk_index |-> NthChunk(ChunksOf(f), j).chunk_index,
         chunk_size |-> NthChunk(ChunksOf(f), j).chunk_size,
         bot_id |-> PoolAt(u, j % PoolSize(u)),
         telegram_message_id |-> Len(tg) + 1 + j,
         telegram_file_id |-> Len(tg) + 1 + j,
         channel_id |-> bots[PoolAt(u, j % PoolSize(u))].channel_id] : j \in 0..(m - 1)}

ForkRows(u, f, nf, m) ==
  {[file_id |-> nf,
    chunk_index |-> NthChunk(ChunksOf(f), j).chunk_index,
    chunk_size |-> NthChunk(ChunksOf(f), j).chunk_size,
    bot_id |-> PoolAt(u, j % PoolSize(u)),
    telegram_message_id |-> Len(tg) + 1 + j,
    telegram_file_id |-> Len(tg) + 1 + j,
    channel_id |-> bots[PoolAt(u, j % PoolSize(u))].channel_id] : j \in 0..(m - 1)}

ForkFile(u, f) ==
  [files[f] EXCEPT !.user_id = u, !.is_public = FALSE, !.is_deleted = FALSE,
                   !.forked_from_file = f, !.fork_count = 0, !.updated_at = now]

Fork(u, f, good) ==
  /\ UNCHANGED <<bots, scanOrder, cache, now, completed, split, issued, throttle, pending, shares>>
  /\ IF ~(f \in FileIds /\ files[f].is_public /\ ~files[f].is_deleted)
     THEN /\ resp' = Reply("fork", 404, "File not found or not public")
          /\ UNCHANGED <<files, chunks, tg>>
     ELSE IF files[f].user_id = u
     THEN /\ resp' = Reply("fork", 400, "Cannot fork your own file")
          /\ UNCHANGED <<files, chunks, tg>>
     ELSE IF LiveByHash(u, files[f].file_hash) # {}
     THEN /\ \E g \in LiveByHash(u, files[f].file_hash) :
               resp' = [Reply("fork", 409, "File already forked")
                          EXCEPT !.file_id = g, !.duplicate = TRUE]
          /\ UNCHANGED <<files, chunks, tg>>
     ELSE IF ChunksOf(f) = {}
     THEN /\ resp' = Reply("fork", 404, "File chunks not found")
          /\ UNCHANGED <<files, chunks, tg>>
     ELSE IF PoolSize(u) = 0
     THEN /\ resp' = Reply("fork", 400, "No active bots found")
          /\ UNCHANGED <<files, chunks, tg>>
     ELSE /\ Len(files) < MaxFiles
          /\ good \in 0..Cardinality(ChunksOf(f))
          /\ Len(tg) + ForkCopied(u, f, good) <= MaxForkMsgs
          /\ tg' = tg \o ForkDocs(u, f, ForkCopied(u, f, good))
          /\ chunks' = chunks \cup ForkRows(u, f, Len(files) + 1, ForkCopied(u, f, good))
          /\ IF ForkCopied(u, f, good) = Cardinality(ChunksOf(f))
             THEN /\ files' = Append([files EXCEPT ![f].fork_count = @ + 1], ForkFile(u, f))
                  /\ resp' = [Reply("fork", 200, "none")
                                EXCEPT !.file_id = Len(files) + 1, !.sent = TRUE]
             ELSE /\ files' = Append(files, ForkFile(u, f))
                  /\ resp' = [Reply("fork", 500, "Failed to fork file")
                                EXCEPT !.sent = ~ForkNoChannel(u, ForkCopied(u, f, good))]

\* --------------------------------------- GET /:file_id/stream, Range branch
\* parseRange: hs < 0 stands for a header the pattern bytes=(\d+)-(\d*) does
\* not match, he < 0 for an empty second group
ParseRange(hs, he, fileSize) ==
  IF hs < 0 THEN <<0, fileSize - 1>>
  ELSE <<hs, Min(IF he < 0 THEN fileSize - 1 ELSE he, fileSize - 1)>>

\* JOIN bots ... WHERE bots.is_active = 1 AND bots.channel_id IS NOT NULL
Readable(f) ==
  {c \in ChunksOf(f) : bots[c.bot_id].is_active /\ bots[c.bot_id].channel_id # NoChannel}

\* shouldCache(mime_type)
ShouldCache(mime) == mime \in {"video/mp4", "image/png", "audio/mpeg"}

\* setCached: Cache.put rejects a 206 Partial Content response and setCached
\* swallows the error
CachePut(key, status, body) ==
  IF status = 206 THEN cache ELSE cache \cup {[key |-> key, status |-> status, body |-> body]}

CacheHit(key) == {e \in cache : e.key = key}

\* the range loop with extractEnd = end - chunkStart (the inclusive end taken
\* as exclusive)
RECURSIVE RangePartsExclusiveEnd(_, _, _, _, _)
RangePartsExclusiveEnd(S, k, off, start, end) ==
  IF k >= Cardinality(S) THEN <<>>
  ELSE LET c == NthChunk(S, k)
           chunkEnd == off + c.chunk_size
           extractStart == Max(0, start - off)
           extractEnd == Min(c.chunk_size, end - off)
       IN  (IF chunkEnd > start /\ off <= end
            THEN Slice(TgBytes(c), extractStart, extractEnd)
            ELSE <<>>)
           \o RangePartsExclusiveEnd(S, k + 1, chunkEnd, start, end)

\* the loop over chunks.results from row k on, chunkStart = off: the
\* concatenation of the extracted parts of the rows that meet [start, end]
RECURSIVE RangeParts(_, _, _, _, _)
RangeParts(S, k, off, start, end) ==
  IF k >= Cardinality(S) THEN <<>>
  ELSE LET c == NthChunk(S, k)
           chunkEnd == off + c.chunk_size
           extractStart == Max(0, start - off)
           extractEnd == Min(c.chunk_size, end - off + 1)
       IN  (IF chunkEnd > start /\ off <= end
            THEN Slice(TgBytes(c), extractStart, extractEnd)
            ELSE <<>>)
           \o RangeParts(S, k + 1, chunkEnd, start, end)

\* the rows the loop pushes to neededChunks
RECURSIVE NeededChunks(_, _, _, _, _)
NeededChunks(S, k, off, start, end) ==
  IF k >= Cardinality(S) THEN {}
  ELSE (IF off + NthChunk(S, k).chunk_size > start /\ off <= end
        THEN {NthChunk(S, k)} ELSE {})
       \cup NeededChunks(S, k + 1, off + NthChunk(S, k).chunk_size, start, end)

\* dl is the outcome of downloadFile for the needed chunks: delivered, a
\* Telegram error naming a missing file, or any other error
DownloadOutcomes == {"ok", "missing", "error"}

\* the download handler verifies the bot with getBotInfo before it calls
\* downloadFile; "unverified" is the outcome in which getBotInfo throws
DownloadTries == DownloadOutcomes \cup {"unverified"}

\* the inner try throws: getBotInfo fails, the transport fails, or getFile no
\* longer resolves the stored telegram_file_id
FetchFails(c, dl) == dl # "ok" \/ ~tg[c.telegram_file_id].live

FailedChunks(S, dl) == {c \in S : FetchFails(c, dl)}

\* the last row whose download throws, as if the loop went on after a failure
LastFailed(S, dl) ==
  CHOOSE c \in FailedChunks(S, dl) :
    \A d \in FailedChunks(S, dl) : c.chunk_index >= d.chunk_index

\* the first row of the loop whose download throws
FirstFailed(S, dl) ==
  CHOOSE c \in FailedChunks(S, dl) :
    \A d \in FailedChunks(S, dl) : c.chunk_index <= d.chunk_index

\* errorMessage.includes('file not found') || includes('404') || includes('400')
FetchStatus(dl) == IF dl \in {"error", "unverified"} THEN 500 ELSE 404

StreamRange(u, f, hs, he, dl) ==
  /\ UNCHANGED <<bots, scanOrder, files, chunks, tg, now, completed, split, issued,
                 throttle, pending, shares>>
  /\ IF ~(OwnedFile(u, f) /\ ~files[f].is_deleted)
     THEN /\ resp' = Reply("stream", 404, "File not found")
          /\ UNCHANGED cache
     ELSE IF Readable(f) = {}
     THEN /\ resp' = IF ChunksOf(f) # {}
                     THEN Reply("stream", 503, "File chunks found but bot is inactive")
                     ELSE Reply("stream", 404, "File chunks not found")
          /\ UNCHANGED cache
     ELSE LET r == ParseRange(hs, he, files[f].file_size)
              key == <<f, r[1], r[2]>>
          IN  IF ShouldCache(files[f].mime_type) /\ CacheHit(key) # {}
              THEN /\ \E e \in CacheHit(key) :
                        resp' = [Reply("stream", e.status, "none")
                                   EXCEPT !.first = r[1], !.last = r[2], !.body = e.body]
                   /\ UNCHANGED cache
              ELSE IF FailedChunks(NeededChunks(Readable(f), 0, 0, r[1], r[2]), dl) # {}
              THEN /\ resp' =
                        [Reply("stream", FetchStatus(dl),
                               IF FetchStatus(dl) = 404
                               THEN "File chunk not found in Telegram"
                               ELSE "Failed to stream file chunk")
                           EXCEPT !.chunk_index =
                             FirstFailed(NeededChunks(Readable(f), 0, 0, r[1], r[2]),
                                         dl).chunk_index]
                   /\ UNCHANGED cache
              ELSE /\ resp' = [Reply("stream", 206, "none")
                                 EXCEPT !.first = r[1], !.last = r[2],
                                        !.required = files[f].file_size,
                                        !.body = RangeParts(Readable(f), 0, 0, r[1], r[2])]
                   /\ cache' = IF ShouldCache(files[f].mime_type)
                               THEN CachePut(key, 206,
                                             RangeParts(Readable(f), 0, 0, r[1], r[2]))
                               ELSE cache

\* ------------------------------------------------- GET /:file_id/download
\* the rows of S in chunk_index order, as bytes
AllParts(S) == [k \in 1..Cardinality(S) |-> TgBytes(NthChunk(S, k - 1))]

\* a file lookup that leaves out the is_deleted condition
VisibleDeleted(u, f) == f \in FileIds /\ files[f].user_id = u

\* SELECT ... FROM files WHERE file_id = ? AND user_id = ? AND is_deleted = 0
Visible(u, f) == f \in FileIds /\ files[f].user_id = u /\ ~files[f].is_deleted

\* GET /:file_id: the metadata of the file
GetFile(u, f) ==
  /\ UNCHANGED <<bots, scanOrder, files, chunks, tg, cache, now, completed, split,
                 issued, throttle, pending, shares>>
  /\ IF ~Visible(u, f)
     THEN resp' = Reply("meta", 404, "File not found")
     ELSE resp' = [Reply("meta", 200, "none")
                     EXCEPT !.file_id = f, !.required = files[f].chunk_count]

\* PUT /:file_id with is_public in the body (file_name, folder and the public
\* title are not part of the model's File row)
UpdateFile(u, f, pub) ==
  /\ UNCHANGED <<bots, scanOrder, chunks, tg, cache, now, completed, split, issued,
                 throttle, pending, shares>>
  /\ IF ~Visible(u, f)
     THEN /\ resp' = Reply("update", 404, "File not found")
          /\ UNCHANGED files
     ELSE /\ files' = [files EXCEPT ![f].is_public = pub, ![f].updated_at = now]
          /\ resp' = Reply("update", 200, "none")

\* GET /:file_id/stream without a Range header: every joined chunk is
\* downloaded once, the bodies are concatenated and the 200 response is
\* cached under the key of the file
StreamFull(u, f, dl) ==
  /\ UNCHANGED <<bots, scanOrder, files, chunks, tg, now, completed, split, issued,
                 throttle, pending, shares>>
  /\ IF ~Visible(u, f)
     THEN /\ resp' = Reply("stream", 404, "File not found")
          /\ UNCHANGED cache
     ELSE IF Readable(f) = {}
     THEN /\ resp' = IF ChunksOf(f) # {}
                     THEN Reply("stream", 503, "File chunks found but bot is inactive")
                     ELSE Reply("stream", 404, "File chunks not found")
          /\ UNCHANGED cache
     ELSE IF ShouldCache(files[f].mime_type) /\ CacheHit(<<f>>) # {}
     THEN /\ \E e \in CacheHit(<<f>>) :
               resp' = [Reply("stream", e.status, "none") EXCEPT !.body = e.body]
          /\ UNCHANGED cache
     ELSE IF FailedChunks(Readable(f), dl) # {}
     THEN /\ resp' =
               [Reply("stream", FetchStatus(dl),
                      IF FetchStatus(dl) = 404
                      THEN "File chunk not found in Telegram"
                      ELSE "Failed to stream file chunk")
                  EXCEPT !.chunk_index = FirstFailed(Readable(f), dl).chunk_index]
          /\ UNCHANGED cache
     ELSE /\ resp' = [Reply("stream", 200, "none")
                        EXCEPT !.body = Concat(AllParts(Readable(f)))]
          /\ cache' = IF ShouldCache(files[f].mime_type)
                      THEN CachePut(<<f>>, 200, Concat(AllParts(Readable(f))))
                      ELSE cache

\* GET /api/v1/files/:file_id/download: after the file lookup the chunk rows
\* are read FROM file_chunks, a table no schema file creates; the query throws
\* and the handler's catch answers 500
V1Download(u, f) ==
  /\ UNCHANGED <<bots, scanOrder, files, chunks, tg, cache, now, completed, split,
                 issued, throttle, pending, shares>>
  /\ IF ~Visible(u, f)
     THEN resp' = Reply("v1download", 404, "File not found")
     ELSE resp' = Reply("v1download", 500, "Download failed")

\* ------------------------------------------------------------ share links
\* Share links are created without password and without expiry. A row holds
\* the columns file_id, user_id, max_downloads, download_count and is_active;
\* served is a history counter of the file responses sent through the link.
ShareIds == 1..Len(shares)

NewShare(u, f, m) ==
  [file_id |-> f, user_id |-> u, max_downloads |-> m, download_count |-> 0,
   is_active |-> TRUE, served |-> 0]

\* POST /api/share/create; max_downloads || null stores NULL for 0
CreateShare(u, f, m) ==
  /\ Len(shares) < MaxShares
  /\ UNCHANGED <<bots, scanOrder, files, chunks, tg, cache, now, completed, split,
                 issued, throttle, pending>>
  /\ IF ~Visible(u, f)
     THEN /\ resp' = Reply("share", 404, "File not found")
          /\ UNCHANGED shares
     ELSE /\ shares' = Append(shares, NewShare(u, f, m))
          /\ resp' = Reply("share", 200, "none")

\* DELETE /api/share/:share_id
RevokeShare(u, s) ==
  /\ UNCHANGED <<bots, scanOrder, files, chunks, tg, cache, now, completed, split,
                 issued, throttle, pending>>
  /\ IF ~(s \in ShareIds /\ shares[s].user_id = u)
     THEN /\ resp' = Reply("revoke", 404, "Share not found")
          /\ UNCHANGED shares
     ELSE /\ shares' = [shares EXCEPT ![s].is_active = FALSE]
          /\ resp' = Reply("revoke", 200, "none")

\* SELECT ... FROM shares WHERE share_id = ? AND is_active = 1
ActiveShare(s) == s \in ShareIds /\ shares[s].is_active

\* share.max_downloads && share.download_count >= share.max_downloads
LimitReached(row) == row.max_downloads # NULL /\ row.download_count >= row.max_downloads

\* SELECT ... FROM files WHERE file_id = ? AND is_deleted = 0
SharedFileLive(f) == f \in FileIds /\ ~files[f].is_deleted

\* errorMessage.includes('file not found') || errorMessage.includes('404')
ShareFetchStatus(dl) == IF dl = "error" THEN 500 ELSE 404

\* GET /api/share/:share_id/download up to its limit check: the share row is
\* read and checked; the request then goes on to the file and its chunks
ShareDownloadCheck(q, s) ==
  /\ pending[q].pc = "idle"
  /\ UNCHANGED <<bots, scanOrder, files, chunks, tg, cache, now, completed, split,
                 issued, throttle, shares>>
  /\ IF ~ActiveShare(s)
     THEN /\ resp' = Reply("sharedl", 404, "Share not found")
          /\ UNCHANGED pending
     ELSE IF LimitReached(shares[s])
     THEN /\ resp' = Reply("sharedl", 410, "Download limit reached")
          /\ UNCHANGED pending
     ELSE /\ pending' = [pending EXCEPT ![q] = [pc |-> "serve", share_id |-> s,
                                                file_id |-> shares[s].file_id]]
          /\ UNCHANGED resp

\* The rest of the handler: file lookup, chunk query, downloads, then UPDATE
\* shares SET download_count = download_count + 1 and the file response
ShareDownloadServe(q, dl) ==
  /\ pending[q].pc = "serve"
  /\ shares[pending[q].share_id].served < MaxServed
  /\ pending' = [pending EXCEPT ![q] = Idle]
  /\ UNCHANGED <<bots, scanOrder, files, chunks, tg, cache, now, completed, split,
                 issued, throttle>>
  /\ LET s == pending[q].share_id
         f == pending[q].file_id
     IN  IF ~SharedFileLive(f)
         THEN /\ resp' = Reply("sharedl", 404, "File not found")
              /\ UNCHANGED shares
         ELSE IF Readable(f) = {}
         THEN /\ resp' = IF ChunksOf(f) # {}
                         THEN Reply("sharedl", 503, "File chunks found but bot is inactive")
                         ELSE Reply("sharedl", 404, "File chunks not found")
              /\ UNCHANGED shares
         ELSE IF FailedChunks(Readable(f), dl) # {}
         THEN /\ resp' =
                   [Reply("sharedl", ShareFetchStatus(dl),
                          IF ShareFetchStatus(dl) = 404
                          THEN "File chunk not found in Telegram"
                          ELSE "Failed to download file chunk")
                      EXCEPT !.chunk_index = FirstFailed(Readable(f), dl).chunk_index]
              /\ UNCHANGED shares
         ELSE /\ shares' = [shares EXCEPT ![s].download_count = @ + 1,
                                          ![s].served = @ + 1]
              /\ resp' = [Reply("sharedl", 200, "none")
                            EXCEPT !.file_id = f,
                                   !.body = Concat(AllParts(Readable(f)))]

\* GET /api/share/:share_id/stream, with a Range header (ranged, hs-he) or
\* without: the handler has no limit check and no UPDATE of the share row
ShareStream(s, ranged, hs, he, dl) ==
  /\ s \in ShareIds => shares[s].served < MaxServed
  /\ UNCHANGED <<bots, scanOrder, files, chunks, tg, cache, now, completed, split,
                 issued, throttle, pending>>
  /\ IF ~ActiveShare(s)
     THEN /\ resp' = Reply("sharestream", 404, "Share not found")
          /\ UNCHANGED shares
     ELSE IF ~SharedFileLive(shares[s].file_id)
     THEN /\ resp' = Reply("sharestream", 404, "File not found")
          /\ UNCHANGED shares
     ELSE
       LET f == shares[s].file_id
           r == ParseRange(hs, he, files[f].file_size)
           needed == IF ranged THEN NeededChunks(Readable(f), 0, 0, r[1], r[2])
                     ELSE Readable(f)
       IN  IF Readable(f) = {}
           THEN /\ resp' = IF ChunksOf(f) # {}
                           THEN Reply("sharestream", 503,
                                      "File chunks found but bot is inactive")
                           ELSE Reply("sharestream", 404, "File chunks not found")
                /\ UNCHANGED shares
           ELSE IF FailedChunks(needed, dl) # {}
           THEN /\ resp' =
                     [Reply("sharestream", ShareFetchStatus(dl),
                            IF ShareFetchStatus(dl) = 404
                            THEN "File chunk not found in Telegram"
                            ELSE "Failed to stream file chunk")
                        EXCEPT !.chunk_index = FirstFailed(needed, dl).chunk_index]
                /\ UNCHANGED shares
           ELSE /\ shares' = [shares EXCEPT ![s].served = @ + 1]
                /\ resp' =
                     IF ranged
                     THEN [Reply("sharestream", 206, "none")
                             EXCEPT !.file_id = f, !.first = r[1], !.last = r[2],
                                    !.required = files[f].file_size,
                                    !.body = RangeParts(Readable(f), 0, 0, r[1], r[2])]
                     ELSE [Reply("sharestream", 200, "none")
                             EXCEPT !.file_id = f,
                                    !.body = Concat(AllParts(Readable(f)))]

\* position of row c among the rows of F
Rank(F, c) == Cardinality({d \in F : d.chunk_index < c.chunk_index})

\* getFileFromMessage: forwardMessage copies the message into the same
\* channel, getFile resolves the document of the copy
Forwarded(F) ==
  [j \in 1..Cardinality(F) |->
     [bot |-> NthChunk(F, j - 1).bot_id, chat |-> NthChunk(F, j - 1).channel_id,
      doc |-> TgBytes(NthChunk(F, j - 1)), live |-> TRUE]]

\* an UPDATE that rewrote the message reference together with the file id
RepairedMessageToo(F) ==
  {[c EXCEPT !.telegram_file_id = Len(tg) + 1 + Rank(F, c),
             !.telegram_message_id = Len(tg) + 1 + Rank(F, c)] : c \in F}

\* UPDATE chunks SET telegram_file_id = ? WHERE chunk_id = ?
Repaired(F) ==
  {[c EXCEPT !.telegram_file_id = Len(tg) + 1 + Rank(F, c)] : c \in F}

\* One Telegram call of the download loop: its method, the chunk it serves,
\* the file or message reference it is given and whether it returned
Call(method, c, ref, ok) ==
  [call |-> method, chunk_index |-> c.chunk_index, ref |-> ref, ok |-> ok]

\* the calls one iteration of the loop makes for row c: getBotInfo, then
\* downloadFile by the stored file id unless getBotInfo threw; in the catch
\* getFileFromMessage and, when it returned a file, downloadFile by the new id
CallsOfChunk(S, c, dl, repairOk) ==
  <<Call("getMe", c, 0, dl # "unverified")>>
  \o (IF dl = "unverified" THEN <<>>
      ELSE <<Call("downloadFile", c, c.telegram_file_id, ~FetchFails(c, dl))>>)
  \o (IF FetchFails(c, dl)
      THEN <<Call("getFileFromMessage", c, c.telegram_message_id, repairOk)>>
           \o (IF repairOk
               THEN <<Call("downloadFile", c,
                           Len(tg) + 1 + Rank(FailedChunks(S, dl), c), TRUE)>>
               ELSE <<>>)
      ELSE <<>>)

\* for (const chunk of chunks.results): the loop ends at the first row whose
\* fallback fails
RECURSIVE CallsFrom(_, _, _, _)
CallsFrom(S, k, dl, repairOk) ==
  IF k >= Cardinality(S) THEN <<>>
  ELSE CallsOfChunk(S, NthChunk(S, k), dl, repairOk)
       \o (IF FetchFails(NthChunk(S, k), dl) /\ ~repairOk THEN <<>>
           ELSE CallsFrom(S, k + 1, dl, repairOk))

\* dl is the outcome of the download by the stored telegram_file_id,
\* repairOk the outcome of the message_id fallback
Download(u, f, dl, repairOk) ==
  /\ UNCHANGED <<bots, scanOrder, files, cache, now, completed, split, issued, throttle, pending, shares>>
  /\ IF ~(OwnedFile(u, f) /\ ~files[f].is_deleted)
     THEN /\ resp' = Reply("download", 404, "File not found")
          /\ UNCHANGED <<chunks, tg>>
     ELSE IF Readable(f) = {}
     THEN /\ resp' = IF ChunksOf(f) # {}
                     THEN Reply("download", 503, "File chunks found but bot is inactive")
                     ELSE Reply("download", 404, "File chunks not found")
          /\ UNCHANGED <<chunks, tg>>
     ELSE IF FailedChunks(Readable(f), dl) # {} /\ ~repairOk
     THEN /\ resp' =
               [Reply("download", FetchStatus(dl),
                      IF FetchStatus(dl) = 404
                      THEN "File chunk not found in Telegram"
                      ELSE "Failed to download file chunk")
                  EXCEPT !.chunk_index = FirstFailed(Readable(f), dl).chunk_index,
                         !.calls = CallsFrom(Readable(f), 0, dl, repairOk)]
          /\ UNCHANGED <<chunks, tg>>
     ELSE /\ Len(tg) + Cardinality(FailedChunks(Readable(f), dl)) <= MaxMsgs
          /\ tg' = tg \o Forwarded(FailedChunks(Readable(f), dl))
          /\ chunks' = (chunks \ FailedChunks(Readable(f), dl))
                          \cup Repaired(FailedChunks(Readable(f), dl))
          /\ resp' = [Reply("download", 200, "none")
                        EXCEPT !.body = Concat(AllParts(Readable(f))),
                               !.calls = CallsFrom(Readable(f), 0, dl, TRUE)]

\* Telegram stops resolving the file_id of document m
ExpireFileId(m) ==
  /\ m \in 1..Len(tg)
  /\ tg[m].live
  /\ tg' = [tg EXCEPT ![m].live = FALSE]
  /\ UNCHANGED <<bots, scanOrder, files, chunks, cache, now, completed, resp, split,
                 issued, throttle, pending, shares>>

\* ------------------------------------------------------------ bots routes
OwnedBot(u, b) == bots[b].user_id = u

\* POST /api/bots/:bot_id/health; h is the answer of checkBotHealth
HealthCheck(u, b, h) ==
  /\ UNCHANGED <<scanOrder, files, chunks, tg, cache, now, completed, split, issued,
                 throttle, pending, shares>>
  /\ IF ~OwnedBot(u, b)
     THEN /\ resp' = Reply("health", 404, "Bot not found")
          /\ UNCHANGED bots
     ELSE /\ bots' = [bots EXCEPT ![b].health_status = h, ![b].last_health_check = now]
          /\ resp' = Reply("health", 200, h)

\* what validateBotToken can end in: success, or an Error whose message holds
\* the text of the Telegram failure.  A 429 answer reads "Too Many Requests:
\* retry after N" and N may spell 401; a 401 answer reads "Unauthorized";
\* text is the set of the substrings checkBotHealth looks for that the
\* message contains
ProbeOutcomes ==
  {[kind |-> "ok", text |-> {}],
   [kind |-> "429", text |-> {"429"}],
   [kind |-> "429", text |-> {"429", "401"}],
   [kind |-> "401", text |-> {"401", "Unauthorized"}],
   [kind |-> "other", text |-> {}]}

\* checkBotHealth with the test for 401 before the test for 429
CheckBotHealthBannedFirst(m) ==
  IF m.kind = "ok" THEN "healthy"
  ELSE IF m.text \cap {"401", "Unauthorized"} # {} THEN "banned"
  ELSE IF m.text \cap {"429", "rate"} # {} THEN "rate_limited"
  ELSE "unknown"

\* checkBotHealth
CheckBotHealth(m) ==
  IF m.kind = "ok" THEN "healthy"
  ELSE IF m.text \cap {"429", "rate"} # {} THEN "rate_limited"
  ELSE IF m.text \cap {"401", "Unauthorized"} # {} THEN "banned"
  ELSE "unknown"

\* POST /api/bots/:bot_id/health with validateBotToken ending in m
HealthProbe(u, b, m) == HealthCheck(u, b, CheckBotHealth(m))

\* DELETE /api/bots/:bot_id
RemoveBot(u, b) ==
  /\ UNCHANGED <<scanOrder, files, chunks, tg, cache, now, completed, split, issued,
                 throttle, pending, shares>>
  /\ IF ~OwnedBot(u, b)
     THEN /\ resp' = Reply("removebot", 404, "Bot not found")
          /\ UNCHANGED bots
     ELSE /\ bots' = [bots EXCEPT ![b].is_active = FALSE]
          /\ resp' = Reply("removebot", 200, "none")

\* POST /api/bots/add with the token of a bot the user has added before
AddBot(u, b) ==
  /\ UNCHANGED <<scanOrder, files, chunks, tg, cache, now, completed, split, issued,
                 throttle, pending, shares>>
  /\ OwnedBot(u, b)
  /\ IF bots[b].is_active
     THEN /\ resp' = Reply("addbot", 400, "Bot already added")
          /\ UNCHANGED bots
     ELSE /\ bots' = [bots EXCEPT ![b].is_active = TRUE, ![b].health_status = "healthy",
                                  ![b].last_health_check = now]
          /\ resp' = Reply("addbot", 200, "none")

\* Date.now() advances
Tick ==
  /\ now < MaxClock
  /\ now' = now + 1
  /\ UNCHANGED <<bots, scanOrder, files, chunks, tg, cache, completed, resp, split,
                 issued, throttle, pending, shares>>

\* ---------------------------------------------- telegramRequest, rateLimit
\* the catalog, the pool and the client are not touched by the throttle
ThrottleOnly ==
  UNCHANGED <<bots, scanOrder, files, chunks, tg, cache, now, completed, resp, split,
              issued, pending, shares>>

\* rateLimit(botToken) of call k with the token of bot b, up to its first
\* await: either the call sleeps until the interval since lastCall is over,
\* or it stores Date.now() and is released to fetch
RateLimitEnter(k, b) ==
  /\ throttle.pc[k] = "idle"
  /\ LET lastCall == throttle.last[b]
         timeSinceLastCall == throttle.ms - lastCall
     IN  IF timeSinceLastCall < RATE_LIMIT_MS
         THEN throttle' = [throttle EXCEPT
                             !.pc[k] = "waiting", !.token[k] = b,
                             !.wake[k] = throttle.ms + (RATE_LIMIT_MS - timeSinceLastCall)]
         ELSE throttle' = [throttle EXCEPT
                             !.pc[k] = "released", !.token[k] = b,
                             !.last[b] = throttle.ms, !.released[k] = throttle.ms]
  /\ ThrottleOnly

\* the timer of call k fires: rateLimitMap.set(botToken, Date.now()), and the
\* call is released to fetch
RateLimitWake(k) ==
  /\ throttle.pc[k] = "waiting"
  /\ throttle.ms >= throttle.wake[k]
  /\ throttle' = [throttle EXCEPT
                    !.pc[k] = "released", !.last[throttle.token[k]] = throttle.ms,
                    !.released[k] = throttle.ms]
  /\ ThrottleOnly

\* Date.now() advances by one unit
ClockMs ==
  /\ throttle.ms < MaxMs
  /\ throttle' = [throttle EXCEPT !.ms = @ + 1]
  /\ ThrottleOnly

\* PUT /api/bots/:bot_id/channel with the id of the channel of bot b
SetChannel(u, b) ==
  /\ UNCHANGED <<scanOrder, files, chunks, tg, cache, now, completed, split, issued,
                 throttle, pending, shares>>
  /\ IF ~OwnedBot(u, b)
     THEN /\ resp' = Reply("setchannel", 404, "Bot not found")
          /\ UNCHANGED bots
     ELSE /\ bots' = [bots EXCEPT ![b].channel_id = BotChannel(b)]
          /\ resp' = Reply("setchannel", 200, "none")

\* ---------------------------------------------------------- webhook route
\* a :bot_id of the webhook URL that no row of bots carries
UnknownBot == "b9"

\* chats a Telegram update can name
WebhookChats == {"c7"}

\* Telegram updates: message.new_chat_members lists a member with id and
\* is_bot; chat_member carries new_chat_member with user.id and status.
\* self says whether that id is the id getMe returns for the bot.
WebhookEvents ==
  [kind : {"new_chat_members", "chat_member"}, self : BOOLEAN, is_bot : {TRUE},
   status : {"administrator", "left"}, chat_type : {"channel", "group"},
   chat_id : WebhookChats]

\* a lookup that finds the row whatever its is_active
WebhookBotAnyState(b) == b \in DOMAIN bots

\* SELECT ... FROM bots WHERE bot_id = ? AND is_active = 1
WebhookBot(b) == b \in DOMAIN bots /\ bots[b].is_active

\* botWasAdded, or new_chat_member is the bot as administrator or member;
\* and chat.type is channel or supergroup
BotJoined(ev) ==
  /\ ev.self
  /\ IF ev.kind = "new_chat_members" THEN ev.is_bot
     ELSE ev.status \in {"administrator", "member"}
  /\ ev.chat_type \in {"channel", "supergroup"}

\* POST /api/webhook/:bot_id; getMeOk says whether getMe returned the bot's
\* id.  The confirmation sendMessage is a text message, not a document.
Webhook(b, ev, getMeOk) ==
  /\ UNCHANGED <<scanOrder, files, chunks, tg, cache, now, completed, split, issued,
                 throttle, pending, shares>>
  /\ IF WebhookBot(b) /\ getMeOk /\ BotJoined(ev)
     THEN /\ bots' = [bots EXCEPT ![b].channel_id = ev.chat_id]
          /\ resp' = [Reply("webhook", 200, "none") EXCEPT !.configured = TRUE]
     ELSE /\ UNCHANGED bots
          /\ resp' = Reply("webhook", 200, "none")

\* ------------------------------------------- handleUpload's chunking loop
Bytes == {0, 1}
SplitInputs ==
  {[P |-> p, C |-> c, count |-> CeilDiv(Len(p), c), parts |-> <<>>] :
     p \in UNION {[1..n -> Bytes] : n \in 1..MaxLen}, c \in 1..MaxChunkSize}

\* one iteration: chunkBuffer = buffer.slice(start, end)
SliceNext ==
  /\ Len(split.parts) < split.count
  /\ split' = [split EXCEPT !.parts = Append(@, ChunkSlice(split.P, split.C, Len(split.parts)))]
  /\ UNCHANGED <<bots, scanOrder, files, chunks, tg, cache, now, completed, resp,
                 issued, throttle, pending, shares>>

\* ---------------------------------------------------------- specifications
ChunkIndexes == (0 - 2)..2
Folders == {"none", "foreign"}

\* Chunk upload and completion of one owner's files, session and v1 routes.
Next ==
  \/ \E folder \in Folders : InitUpload("u1", "h1", TRUE, "video/mp4", folder)
  \/ \E f \in 1..MaxFiles, i \in ChunkIndexes, sendOk \in BOOLEAN :
       UploadChunk("u1", f, i, sendOk)
  \/ \E f \in 1..MaxFiles, i \in ChunkIndexes, sendOk \in BOOLEAN :
       V1UploadChunk("u1", f, i, sendOk)
  \/ \E f \in 1..MaxFiles : CompleteUpload("u1", f)
  \/ \E f \in 1..MaxFiles : V1CompleteUpload("u1", f)

Spec == Init /\ [][Next]_vars

\* File rows under sequential init, single-request upload, fork and delete.
\* u1 uploads, u2 uploads and forks; chunk 0 of a file is sent once.
NextDedup ==
  \/ \E u \in Users : InitUpload(u, "h2", TRUE, "video/mp4", "none")
  \/ InitUpload("u1", "h1", FALSE, "video/mp4", "none")
  \/ \E u \in Users : V1InitUpload(u, "h2", TRUE)
  \/ \E u \in Users : V1Upload(u, "h2", "none", TRUE, TRUE)
  \/ \E f \in 1..MaxFiles : ClientUploadChunk("u1", f, 0)
  \/ \E u \in Users, f \in 1..MaxFiles : DeleteFile(u, f)
  \/ \E u \in Users, f \in 1..MaxFiles : V1DeleteFile(u, f, TRUE)
  \/ \E f \in 1..MaxFiles, good \in 0..1 : Fork("u2", f, good)

SpecDedup == Init /\ [][NextDedup]_vars

\* Range headers a player sends for the five-byte payload: every closed range
\* inside it, an open-ended one, one ending past the end, an inverted one and
\* a header the pattern does not match.
ClosedRanges == {r \in (0..4) \X (0..4) : r[1] <= r[2]}
RangeRequests == ClosedRanges \cup {<<2, 0 - 1>>, <<1, 5>>, <<3, 1>>, <<0 - 1, 0 - 1>>}

\* Reads of one owner's file while one of that owner's bots is removed and
\* re-added.  The client sends each chunk of the plan once, in any order.
NextRead ==
  \/ InitUpload("u1", "h3", FALSE, "video/mp4", "none")
  \/ \E i \in 0..2 : ClientUploadChunk("u1", 1, i)
  \/ \E r \in RangeRequests, dl \in DownloadOutcomes :
       StreamRange("u1", 1, r[1], r[2], dl)
  \/ \E dl \in DownloadOutcomes : Download("u1", 1, dl, FALSE)
  \/ RemoveBot("u1", "b2")
  \/ AddBot("u1", "b2")

SpecRead == Init /\ [][NextRead]_vars

\* Reads of a two-chunk file while Telegram stops resolving stored file ids.
NextRepair ==
  \/ InitUpload("u1", "h1", FALSE, "video/mp4", "none")
  \/ \E i \in 0..1 : ClientUploadChunk("u1", 1, i)
  \/ \E m \in 1..MaxMsgs : ExpireFileId(m)
  \/ \E dl \in DownloadOutcomes, repairOk \in BOOLEAN : Download("u1", 1, dl, repairOk)
  \/ \E r \in ClosedRanges, dl \in DownloadOutcomes :
       r[2] <= 2 /\ StreamRange("u1", 1, r[1], r[2], dl)

SpecRepair == Init /\ [][NextRepair]_vars

\* Concurrent requests of one isolate calling telegramRequest with the tokens
\* of two bots.
NextThrottle ==
  \/ \E k \in Calls, b \in {"b1", "b2"} : RateLimitEnter(k, b)
  \/ \E k \in Calls : RateLimitWake(k)
  \/ ClockMs

SpecThrottle == Init /\ [][NextThrottle]_vars

\* Placement while the owner's pool changes.  The client sends each chunk of
\* the plan once, in any order.
InitPool ==
  /\ InitBots
  /\ scanOrder \in {<<"b1", "b2", "b3">>, <<"b2", "b1", "b3">>}
  /\ InitCatalog
  /\ split = NoSplit

NextPool ==
  \/ InitUpload("u1", "h1", FALSE, "video/mp4", "none")
  \/ \E i \in 0..1 : ClientUploadChunk("u1", 1, i)
  \/ \E b \in {"b1", "b2"}, h \in {"healthy", "banned"} : HealthCheck("u1", b, h)
  \/ \E b \in {"b1", "b2"} : RemoveBot("u1", b)
  \/ \E b \in {"b1", "b2"} : AddBot("u1", b)
  \/ Tick

SpecPool == InitPool /\ [][NextPool]_vars

\* Uploads and retries of the chunks of one plan while the owner's bots are
\* health-checked, removed and re-added.
NextPlan ==
  \/ InitUpload("u1", "h1", FALSE, "video/mp4", "none")
  \/ \E i \in 0..1 : UploadChunk("u1", 1, i, TRUE)
  \/ \E b \in {"b1", "b2"} : HealthCheck("u1", b, "healthy")
  \/ RemoveBot("u1", "b2")
  \/ AddBot("u1", "b2")
  \/ Tick

SpecPlan == InitPool /\ [][NextPlan]_vars

\* Uploads while u1's bots have been added and their channels are being set:
\* POST /api/bots/add stores a bot without a channel.
InitChannel ==
  /\ bots \in {[b \in Bots |->
                  [user_id |-> BotOwner(b), is_active |-> TRUE,
                   health_status |-> "healthy", channel_id |-> ch[b],
                   last_health_check |-> NULL]] :
                ch \in {c \in [Bots -> {NoChannel} \cup {BotChannel(b) : b \in Bots}] :
                          /\ c["b3"] = BotChannel("b3")
                          /\ \A b \in Bots : c[b] \in {NoChannel, BotChannel(b)}}}
  /\ scanOrder \in {<<"b1", "b2", "b3">>, <<"b2", "b1", "b3">>}
  /\ InitCatalog
  /\ split = NoSplit

NextChannel ==
  \/ InitUpload("u1", "h1", FALSE, "video/mp4", "none")
  \/ \E i \in 0..1, sendOk \in BOOLEAN : UploadChunk("u1", 1, i, sendOk)
  \/ \E sendOk \in BOOLEAN : V1Upload("u1", "h2", "none", TRUE, sendOk)
  \/ \E i \in 0..1, sendOk \in BOOLEAN : V1UploadChunk("u1", 1, i, sendOk)
  \/ \E b \in {"b1", "b2"} : SetChannel("u1", b)

SpecChannel == InitChannel /\ [][NextChannel]_vars

\* Telegram updates arriving at the webhook of u1's bots and of an unknown
\* bot id, while u1 uploads and removes or re-adds bot b1.
NextWebhook ==
  \/ InitUpload("u1", "h1", FALSE, "video/mp4", "none")
  \/ \E i \in 0..1 : ClientUploadChunk("u1", 1, i)
  \/ \E b \in {"b1", "b2", UnknownBot}, ev \in WebhookEvents, getMeOk \in BOOLEAN :
       Webhook(b, ev, getMeOk)
  \/ RemoveBot("u1", "b1")
  \/ AddBot("u1", "b1")

SpecWebhook == InitChannel /\ [][NextWebhook]_vars

\* Files of u1 that are uploaded, deleted, read and uploaded again under the
\* same hash.
NextDelete ==
  \/ InitUpload("u1", "h1", FALSE, "video/mp4", "none")
  \/ \E i \in 0..1 : ClientUploadChunk("u1", 1, i)
  \/ \E f \in 1..2 : DeleteFile("u1", f)
  \/ \E f \in 1..2 : GetFile("u1", f)
  \/ \E f \in 1..2 : Download("u1", f, "ok", FALSE)
  \/ \E f \in 1..2 : StreamRange("u1", f, 0, 1, "ok")
  \/ \E f \in 1..2 : StreamFull("u1", f, "ok")
  \/ Tick

SpecDelete == Init /\ [][NextDelete]_vars

\* Uploads of u1 under one hash that are left unfinished, tried again through
\* either route and deleted.
NextAbandon ==
  \/ InitUpload("u1", "h1", FALSE, "video/mp4", "none")
  \/ \E sendOk \in BOOLEAN : V1Upload("u1", "h1", "none", TRUE, sendOk)
  \/ \E f \in 1..2, i \in 0..1 : ClientUploadChunk("u1", f, i)
  \/ \E f \in 1..2 : CompleteUpload("u1", f)
  \/ \E f \in 1..2 : DeleteFile("u1", f)

SpecAbandon == Init /\ [][NextAbandon]_vars

\* Forks by u1 of u2's public file that fail part-way and are tried again;
\* u1 may delete the files the forks leave behind.
NextRefork ==
  \/ InitUpload("u2", "h1", TRUE, "video/mp4", "none")
  \/ \E i \in 0..1 : ClientUploadChunk("u2", 1, i)
  \/ \E good \in 0..2 : Fork("u1", 1, good)
  \/ \E f \in 2..MaxFiles : DeleteFile("u1", f)

SpecRefork == InitPool /\ [][NextRefork]_vars

\* Two chunk-upload requests of u1 in flight at once for indices the index
\* check lets through, and complete requests in between.
NextChunkRace ==
  \/ InitUpload("u1", "h1", FALSE, "video/mp4", "none")
  \/ \E q \in Reqs, i \in {0 - 2, 0, 1} : UploadChunkSend(q, "u1", 1, i)
  \/ \E q \in Reqs : UploadChunkInsert(q)
  \/ CompleteUpload("u1", 1)

SpecChunkRace == Init /\ [][NextChunkRace]_vars

\* u1 uploads h1 through the session routes and h2 (one chunk) through the
\* single-request v1 route, and reads both files through both download routes.
NextPaths ==
  \/ InitUpload("u1", "h1", FALSE, "video/mp4", "none")
  \/ \E f \in 1..MaxFiles, i \in 0..1 : ClientUploadChunk("u1", f, i)
  \/ \E f \in 1..MaxFiles : CompleteUpload("u1", f)
  \/ \E sendOk \in BOOLEAN : V1Upload("u1", "h2", "none", TRUE, sendOk)
  \/ \E f \in 1..MaxFiles : V1CompleteUpload("u1", f)
  \/ \E f \in 1..MaxFiles : Download("u1", f, "ok", FALSE)
  \/ \E f \in 1..MaxFiles : V1Download("u1", f)
  \/ \E f \in 1..MaxFiles : DeleteFile("u1", f)

SpecPaths == Init /\ [][NextPaths]_vars

\* One file of u1 behind share links with and without a download limit; two
\* share downloads can be between their limit check and their UPDATE at once.
NextShare ==
  \/ InitUpload("u1", "h1", FALSE, "video/mp4", "none")
  \/ \E i \in 0..1 : ClientUploadChunk("u1", 1, i)
  \/ \E m \in 0..MaxLimit : CreateShare("u1", 1, m)
  \/ \E q \in Reqs, s \in 1..MaxShares : ShareDownloadCheck(q, s)
  \/ \E q \in Reqs, dl \in {"ok", "error"} : ShareDownloadServe(q, dl)
  \/ \E s \in 1..MaxShares, ranged \in BOOLEAN, dl \in {"ok", "error"} :
        ShareStream(s, ranged, 0, 1, dl)
  \/ \E s \in 1..MaxShares : RevokeShare("u1", s)
  \/ DeleteFile("u1", 1)

SpecShare == Init /\ [][NextShare]_vars

\* Every session route that takes a file id, called by the owner u1 and by
\* u2 for the file of u1.
NextOwner ==
  \/ InitUpload("u1", "h1", FALSE, "video/mp4", "none")
  \/ \E u \in Users, i \in 0..1 : ClientUploadChunk(u, 1, i)
  \/ \E u \in Users : CompleteUpload(u, 1)
  \/ \E u \in Users : GetFile(u, 1)
  \/ \E u \in Users : Download(u, 1, "ok", FALSE)
  \/ \E u \in Users : StreamRange(u, 1, 0, 1, "ok")
  \/ \E u \in Users : StreamFull(u, 1, "ok")
  \/ \E u \in Users, pub \in BOOLEAN : UpdateFile(u, 1, pub)
  \/ \E u \in Users : DeleteFile(u, 1)
  \/ Tick

SpecOwner == Init /\ [][NextOwner]_vars

\* Two upload/init requests of u1 in flight at once, with deletes and a bot
\* being removed and re-added in between.
NextRace ==
  \/ \E q \in Reqs, h \in {"h1", "h2"}, folder \in Folders :
       InitUploadLookup(q, "u1", h, FALSE, "video/mp4", folder)
  \/ \E q \in Reqs : InitUploadInsert(q)
  \/ \E f \in 1..MaxFiles : DeleteFile("u1", f)
  \/ RemoveBot("u1", "b2")
  \/ AddBot("u1", "b2")

SpecRace == Init /\ [][NextRace]_vars

\* upload/init through both APIs while u1's bots are removed, re-added and
\* probed, so that the pool is at times empty.
NextInit ==
  \/ \E h \in {"h1", "h2"}, folder \in Folders :
       InitUpload("u1", h, FALSE, "video/mp4", folder)
  \/ \E h \in {"h1", "h2"}, canWrite \in BOOLEAN : V1InitUpload("u1", h, canWrite)
  \/ \E b \in {"b1", "b2"} : RemoveBot("u1", b)
  \/ \E b \in {"b1", "b2"} : AddBot("u1", b)
  \/ \E b \in {"b1", "b2"}, h \in {"healthy", "banned"} : HealthCheck("u1", b, h)
  \/ \E f \in 1..MaxFiles : DeleteFile("u1", f)

SpecInit == Init /\ [][NextInit]_vars

\* Health probes of every bot, by its owner and by another user, while a
\* file of u1 is uploaded.
NextHealth ==
  \/ InitUpload("u1", "h1", FALSE, "video/mp4", "none")
  \/ \E i \in 0..1 : ClientUploadChunk("u1", 1, i)
  \/ \E b \in Bots, m \in ProbeOutcomes : HealthProbe("u1", b, m)
  \/ Tick

SpecHealth == InitPool /\ [][NextHealth]_vars

\* Forks of a public two-chunk file of u2 by u1, whose pool of two bots is
\* health-checked meanwhile; the copy loop may fail at any chunk.
NextFork ==
  \/ InitUpload("u2", "h1", TRUE, "video/mp4", "none")
  \/ \E i \in 0..1 : ClientUploadChunk("u2", 1, i)
  \/ CompleteUpload("u2", 1)
  \/ \E b \in {"b1", "b2"}, h \in {"healthy", "banned"} : HealthCheck("u1", b, h)
  \/ \E good \in 0..2 : Fork("u1", 1, good)
  \/ Tick

SpecFork == InitPool /\ [][NextFork]_vars

\* Every handler that writes the chunks table, next to the handlers that
\* delete the file or invalidate a stored file id: uploads of a public file
\* of u2 that may fail or repeat an index, downloads with the message_id
\* fallback, the soft delete and forks by u1.
NextRecords ==
  \/ InitUpload("u2", "h1", TRUE, "video/mp4", "none")
  \/ \E i \in 0..1, sendOk \in BOOLEAN : UploadChunk("u2", 1, i, sendOk)
  \/ CompleteUpload("u2", 1)
  \/ \E m \in 1..MaxMsgs : ExpireFileId(m)
  \/ \E dl \in DownloadOutcomes, repairOk \in BOOLEAN : Download("u2", 1, dl, repairOk)
  \/ DeleteFile("u2", 1)
  \/ \E good \in 0..2 : Fork("u1", 1, good)

SpecRecords == InitPool /\ [][NextRecords]_vars

\* Downloads of a two-chunk file in which getBotInfo, the download by the
\* stored file id and the message_id fallback may each fail.
NextAttempts ==
  \/ InitUpload("u1", "h1", FALSE, "video/mp4", "none")
  \/ \E i \in 0..1 : ClientUploadChunk("u1", 1, i)
  \/ \E m \in 1..MaxMsgs : ExpireFileId(m)
  \/ \E dl \in DownloadTries, repairOk \in BOOLEAN : Download("u1", 1, dl, repairOk)

SpecAttempts == Init /\ [][NextAttempts]_vars

\* The chunking loop on its own, over all short payloads and chunk sizes.
InitSplit ==
  /\ InitBots
  /\ scanOrder = <<"b1", "b2", "b3">>
  /\ InitCatalog
  /\ split \in SplitInputs

NextSplit == SliceNext

SpecSplit == InitSplit /\ [][NextSplit]_vars

\* ------------------------------------------------------------------ claims

\* C1: a range read of a completely uploaded file whose bots are all active
\* answers 206 with exactly the bytes P[start..end] of the payload, for every
\* 0 <= start <= end < len(P), when the transport delivers the chunks; when
\* it does not, the read fails with an error and no body is returned.
C1_RangeReadExact ==
  [][( /\ resp'.op = "stream"
       /\ {c.chunk_index : c \in {d \in chunks : d.file_id = 1}} = 0..2
       /\ \A b \in Bots : bots[b].is_active )
     => /\ resp'.status \in {206, 404, 500}
        /\ resp'.status # 206 => resp'.err # "none" /\ resp'.body = <<>>
        /\ \A r \in ClosedRanges :
             /\ resp'.status # 206 => ~StreamRange("u1", 1, r[1], r[2], "ok")
             /\ ( /\ resp'.status = 206
                  /\ resp'.first = r[1] /\ resp'.last = r[2]
                  /\ \E dl \in DownloadOutcomes : StreamRange("u1", 1, r[1], r[2], dl) )
                => resp'.body = SubSeq(Payload("h3"), r[1] + 1, r[2] + 1)]_vars

\* C1 witness: bytes 1..3 of the five-byte payload (the tail of chunk 0 and
\* the whole of chunk 1, ending on a chunk boundary) have just been served.
C1_Witness ==
  /\ resp.op = "stream" /\ resp.status = 206
  /\ resp.first = 1 /\ resp.last = 3 /\ resp.body = <<2, 3, 4>>
  /\ {c.chunk_index : c \in {d \in chunks : d.file_id = 1}} = 0..2
  /\ \A b \in Bots : bots[b].is_active

\* C2: the chunking loop yields ceil(L / C) chunks, each of C bytes except
\* the last, which has L - C * (count - 1) bytes, and the chunks produced so
\* far are a prefix of the payload, all of it once the loop has ended.
C2_ChunkingRoundTrip ==
  LET L == Len(split.P)
      n == Len(split.parts)
  IN  split.C > 0 /\ L > 0 =>
        /\ split.count * split.C >= L
        /\ (split.count - 1) * split.C < L
        /\ n <= split.count
        /\ \A i \in 1..n :
             Len(split.parts[i]) =
               IF i < split.count THEN split.C ELSE L - split.C * (split.count - 1)
        /\ Concat(split.parts) = SubSeq(split.P, 1, Len(Concat(split.parts)))
        /\ n = split.count => Concat(split.parts) = split.P

\* C2 witness: a finished split into several chunks with a short last chunk.
C2_Witness ==
  /\ Len(split.parts) = split.count
  /\ split.count >= 2
  /\ Len(split.parts[split.count]) < split.C
  /\ Len(split.parts[split.count]) > 0

\* C3: an init request (session or v1 route) for an owner and hash that
\* already have a non-deleted File row answers duplicate = true with the id of
\* that row and leaves the files and chunks tables unchanged.
C3_DedupIdempotent ==
  [][resp'.op \in {"init", "v1init"}
     => \A u \in Users, h \in Hashes, pub \in BOOLEAN, folder \in Folders :
          ( /\ \E f \in 1..Len(files) :
                 files[f].user_id = u /\ files[f].file_hash = h /\ ~files[f].is_deleted
            /\ \/ InitUpload(u, h, pub, "video/mp4", folder)
               \/ V1InitUpload(u, h, TRUE) )
          => /\ resp'.duplicate
             /\ resp'.file_id \in 1..Len(files)
             /\ files[resp'.file_id].user_id = u
             /\ files[resp'.file_id].file_hash = h
             /\ ~files[resp'.file_id].is_deleted
             /\ files' = files
             /\ chunks' = chunks]_vars

\* C3 witness: the session init route has just answered duplicate for a live row.
C3_Witness ==
  /\ resp.op = "init" /\ resp.status = 409 /\ resp.duplicate
  /\ resp.file_id \in 1..Len(files)
  /\ ~files[resp.file_id].is_deleted

\* C4: under sequential requests no owner has two non-deleted File rows with
\* the same content hash.
C4_HashUniquePerOwner ==
  \A f \in 1..Len(files), g \in 1..Len(files) :
    ( /\ f # g
      /\ files[f].user_id = files[g].user_id
      /\ files[f].file_hash = files[g].file_hash )
    => files[f].is_deleted \/ files[g].is_deleted

\* C4 witness: an owner has uploaded the same content again after deleting it,
\* so two rows share owner and hash and exactly one of them is live.
C4_Witness ==
  \E f \in 1..Len(files), g \in 1..Len(files) :
    /\ f # g
    /\ files[f].user_id = files[g].user_id
    /\ files[f].file_hash = files[g].file_hash
    /\ files[f].is_deleted /\ ~files[g].is_deleted

\* C5: a complete request for an owned file answers success only if the
\* number of chunk rows equals chunk_count; otherwise it answers the
\* incomplete-upload error carrying both counts and changes no row.
C5_CompleteChecksCount ==
  [][\A u \in Users, f \in 1..MaxFiles :
       ( /\ resp'.op \in {"complete", "v1complete"}
         /\ f \in 1..Len(files) /\ files[f].user_id = u
         /\ CompleteUpload(u, f) \/ V1CompleteUpload(u, f) )
       => LET have == Cardinality({c \in chunks : c.file_id = f})
              want == files[f].chunk_count
          IN  /\ resp'.status = 200 => have = want
              /\ have # want =>
                   /\ resp'.err = "Not all chunks uploaded"
                   /\ resp'.uploaded = have
                   /\ resp'.required = want
                   /\ files' = files
                   /\ chunks' = chunks]_vars

\* C6: (file_id, chunk_index) is unique, and every file whose completion was
\* answered with success holds exactly the indices 0 .. chunk_count - 1.
C6_IndicesContiguous ==
  /\ \A c \in chunks, d \in chunks :
       c.file_id = d.file_id /\ c.chunk_index = d.chunk_index => c = d
  /\ \A f \in completed :
       {c.chunk_index : c \in {d \in chunks : d.file_id = f}} = 0..(files[f].chunk_count - 1)

\* C7: a chunk upload for an index of the plan that already has a chunk row
\* succeeds and leaves exactly one row for that (file_id, index).
C7_ReuploadSucceeds ==
  [][\A f \in 1..MaxFiles, i \in 0..2 :
       ( /\ resp'.op = "chunk"
         /\ \E c \in chunks : c.file_id = f /\ c.chunk_index = i
         /\ UploadChunk("u1", f, i, TRUE) )
       => /\ resp'.status = 200
          /\ Cardinality({c \in chunks' : c.file_id = f /\ c.chunk_index = i}) = 1]_vars

\* C8: while a file holds a strict subset of its indices, uploading a missing
\* index through an eligible bot with a bound channel succeeds and adds
\* exactly that index; once all indices are stored, complete answers success.
C8_PartialUploadRecovers ==
  [][\A f \in 1..MaxFiles :
       LET owned == f \in 1..Len(files) /\ files[f].user_id = "u1" /\ ~files[f].is_deleted
           have == {c.chunk_index : c \in {d \in chunks : d.file_id = f}}
           cnt == Cardinality({d \in chunks : d.file_id = f})
       IN  /\ \A i \in ChunkIndexes :
                ( /\ resp'.op = "chunk"
                  /\ owned
                  /\ have \subseteq 0..(files[f].chunk_count - 1)
                  /\ i \in (0..(files[f].chunk_count - 1)) \ have
                  /\ \E b \in Bots :
                       /\ bots[b].user_id = "u1" /\ bots[b].is_active
                       /\ bots[b].health_status = "healthy"
                  /\ \A b \in Bots :
                       bots[b].user_id = "u1" => bots[b].channel_id # NoChannel
                  /\ UploadChunk("u1", f, i, TRUE) )
                => /\ resp'.status = 200
                   /\ {c.chunk_index : c \in {d \in chunks' : d.file_id = f}} = have \cup {i}
                   /\ Cardinality({d \in chunks' : d.file_id = f}) = cnt + 1
           /\ ( /\ resp'.op = "complete"
                /\ owned
                /\ have = 0..(files[f].chunk_count - 1)
                /\ cnt = files[f].chunk_count
                /\ CompleteUpload("u1", f) )
              => resp'.status = 200 /\ f \in completed']_vars

\* C8 witness: a two-chunk file was completed after index 1 had been stored
\* before index 0, so it passed through the partial state {1}.
C8_Witness ==
  \E f \in completed :
    /\ resp.op = "complete" /\ resp.status = 200 /\ resp.file_id = f
    /\ files[f].chunk_count = 2
    /\ \E c \in chunks, d \in chunks :
         /\ c.file_id = f /\ c.chunk_index = 0
         /\ d.file_id = f /\ d.chunk_index = 1
         /\ d.telegram_message_id < c.telegram_message_id

\* C9: every chunk-upload route answers an index >= chunk_count of an owned
\* file with the invalid-index error, without a transport call and without a
\* new chunk row.
C9_InvalidIndexRejected ==
  [][\A f \in 1..MaxFiles, i \in ChunkIndexes, sendOk \in BOOLEAN :
       ( /\ resp'.op \in {"chunk", "v1chunk"}
         /\ f \in 1..Len(files) /\ files[f].user_id = "u1"
         /\ i >= files[f].chunk_count
         /\ UploadChunk("u1", f, i, sendOk) \/ V1UploadChunk("u1", f, i, sendOk) )
       => /\ resp'.status = 400
          /\ resp'.err = "Invalid chunk_index"
          /\ ~resp'.sent
          /\ tg' = tg
          /\ chunks' = chunks]_vars

\* C10: placement uses exactly the caller's active, healthy bots, most
\* recently checked first: with none the request fails with the no-bots error
\* and stores nothing; otherwise the bot chosen for index i is a bot of that
\* pool whose position in the order is i mod the pool size.
C10_SelectBackend ==
  [][LET pool == {b \in Bots : /\ bots[b].user_id = "u1"
                               /\ bots[b].is_active
                               /\ bots[b].health_status = "healthy"}
         n == Cardinality(pool)
         ahead(b) == Cardinality({x \in pool :
                        bots[x].last_health_check > bots[b].last_health_check})
         upto(b) == Cardinality({x \in pool :
                        bots[x].last_health_check >= bots[b].last_health_check})
         placed(b, i) == /\ b \in pool
                         /\ ahead(b) <= i % n
                         /\ i % n < upto(b)
     IN  /\ \A i \in 0..1 :
              ( /\ resp'.op = "chunk"
                /\ 1 \in 1..Len(files)
                /\ UploadChunk("u1", 1, i, TRUE) )
              => /\ n = 0 => resp'.err = "No active bots found" /\ chunks' = chunks
                 /\ n > 0 /\ resp'.status = 200 =>
                      \E c \in chunks' \ chunks :
                        /\ c.file_id = 1 /\ c.chunk_index = i
                        /\ placed(c.bot_id, i)
         /\ ( /\ resp'.op = "init"
              /\ InitUpload("u1", "h1", FALSE, "video/mp4", "none") )
              => /\ (n = 0 /\ ~resp'.duplicate) =>
                      resp'.err = "No active bots found" /\ files' = files
                 /\ resp'.status = 200 =>
                      /\ n > 0
                      /\ Len(resp'.plan) = files'[Len(files')].chunk_count
                      /\ \A k \in 1..Len(resp'.plan) : placed(resp'.plan[k], k - 1)]_vars

\* C10 witness: chunk 0 was placed on b2 because b2 was checked after b1,
\* both being eligible, while another owner's bot b3 was eligible too.
C10_Witness ==
  /\ resp.op = "chunk" /\ resp.status = 200 /\ resp.chunk_index = 0
  /\ \E c \in chunks : c.file_id = 1 /\ c.chunk_index = 0 /\ c.bot_id = "b2"
  /\ bots["b1"].is_active /\ bots["b1"].health_status = "healthy"
  /\ bots["b2"].is_active /\ bots["b2"].health_status = "healthy"
  /\ bots["b2"].last_health_check > bots["b1"].last_health_check
  /\ bots["b1"].last_health_check > NULL
  /\ scanOrder[1] = "b1"

\* C11: whenever the caller's pool is the pool the plan of upload/init was
\* computed from, the bot a chunk upload of index i sends its document to (a
\* first upload or a retry) is the bot the plan lists for index i, and a row
\* it stores names that bot.
C11_PlacementStable ==
  [][(resp'.op = "chunk" /\ Len(tg') = Len(tg) + 1)
     => \A i \in 0..1, e \in issued :
          ( /\ e.file_id = 1
            /\ e.pool = [k \in 1..PoolSize("u1") |-> PoolAt("u1", k - 1)]
            /\ UploadChunk("u1", 1, i, TRUE) )
          => /\ tg'[Len(tg')].bot = e.plan[i + 1]
             /\ \A c \in chunks' \ chunks : c.bot_id = e.plan[i + 1]]_vars

\* C11 witness: index 1 was stored on b2 as planned, the pool was changed and
\* restored in between, and a retry of index 1 has just gone to b2 again.
C11_Witness ==
  /\ resp.op = "chunk" /\ resp.status = 500 /\ resp.sent
  /\ Len(tg) >= 2
  /\ tg[Len(tg)].bot = "b2" /\ tg[Len(tg)].doc = <<3>>
  /\ \E c \in chunks : c.file_id = 1 /\ c.chunk_index = 1 /\ c.bot_id = "b2"
  /\ \E e \in issued : e.file_id = 1 /\ e.plan = <<"b1", "b2">>
  /\ bots["b2"].last_health_check > NULL
\* ---------------------------------------------------------------------------
\* the true byte extent of the chunk with index i meets the range r
Covers(i, r) == i * CHUNK_SIZE <= r[2] /\ (i + 1) * CHUNK_SIZE > r[1]

\* all chunks of the plan of file f are stored
FullyStored(f) == IndicesOf(f) = 0..(files[f].chunk_count - 1)

\* C12: a read of a fully stored file that needs a chunk whose bot has been
\* deactivated (a full download, or a range that covers the chunk) is answered
\* 503 and carries no body.
C12_DeactivatedChunkFailsRead ==
  [][(resp'.op \in {"download", "stream"} /\ Len(files) >= 1 /\ FullyStored(1))
     => /\ \A dl \in DownloadOutcomes :
             ( /\ Download("u1", 1, dl, FALSE)
               /\ \E c \in ChunksOf(1) : ~bots[c.bot_id].is_active )
             => resp'.status = 503 /\ resp'.body = <<>>
        /\ \A r \in ClosedRanges, dl \in DownloadOutcomes :
             ( /\ StreamRange("u1", 1, r[1], r[2], dl)
               /\ \E c \in ChunksOf(1) :
                    ~bots[c.bot_id].is_active /\ Covers(c.chunk_index, r) )
             => resp'.status = 503 /\ resp'.body = <<>>]_vars

\* C13: with the bot of one chunk of a fully stored file deactivated, a range
\* read whose bytes all lie in chunks on active bots is answered 206 with
\* exactly the requested bytes of the payload.
C13_ActiveRangeExact ==
  [][(resp'.op = "stream" /\ Len(files) >= 1 /\ FullyStored(1))
     => \A r \in ClosedRanges :
          ( /\ \E c \in ChunksOf(1) : ~bots[c.bot_id].is_active
            /\ \A c \in ChunksOf(1) :
                 Covers(c.chunk_index, r) => bots[c.bot_id].is_active
            /\ StreamRange("u1", 1, r[1], r[2], "ok") )
          => /\ resp'.status = 206
             /\ resp'.body = Slice(Payload(files[1].file_hash), r[1], r[2] + 1)]_vars

\* some stored telegram_file_id of a chunk of f that meets r no longer resolves
StaleIn(f, r) ==
  \E c \in ChunksOf(f) : Covers(c.chunk_index, r) /\ ~tg[c.telegram_file_id].live

\* C14: when the telegram_file_id of a chunk no longer resolves but its
\* message still does, a read that covers the chunk, full or ranged, returns
\* the bytes of the payload, and afterwards every chunk row the read covered
\* holds a file id that resolves.
C14_RepairOnRead ==
  [][(resp'.op \in {"download", "stream"} /\ Len(files) >= 1 /\ FullyStored(1))
     => /\ ( /\ StaleIn(1, <<0, files[1].file_size - 1>>)
             /\ Download("u1", 1, "ok", TRUE) )
           => /\ resp'.status = 200
              /\ resp'.body = Payload(files[1].file_hash)
              /\ \A c \in chunks' : tg'[c.telegram_file_id].live
        /\ \A r \in ClosedRanges :
             ( /\ r[2] < files[1].file_size
               /\ StaleIn(1, r)
               /\ StreamRange("u1", 1, r[1], r[2], "ok") )
             => /\ resp'.status = 206
                /\ resp'.body = Slice(Payload(files[1].file_hash), r[1], r[2] + 1)
                /\ \A c \in chunks' :
                     Covers(c.chunk_index, r) => tg'[c.telegram_file_id].live]_vars

\* the reply names chunk i of file f: its fetch fails under dl and the fetch
\* of every readable chunk of f before it succeeds
NamesFailing(f, i, dl) ==
  \E c \in Readable(f) :
    /\ c.chunk_index = i
    /\ (dl # "ok" \/ ~tg[c.telegram_file_id].live)
    /\ \A d \in Readable(f) :
         d.chunk_index < i => (dl = "ok" /\ tg[d.telegram_file_id].live)

C16_ForkPlacement ==
  [][(resp'.op = "fork" /\ resp'.status = 200 /\ Len(files) >= 1 /\ FullyStored(1))
     => \A good \in 0..2 :
          Fork("u1", 1, good)
          => /\ Len(files') = Len(files) + 1
             /\ files'[Len(files')].user_id = "u1"
             /\ files'[Len(files')].forked_from_file = 1
             /\ files'[Len(files')].file_hash = files[1].file_hash
             /\ chunks' \ chunks = {c \in chunks' : c.file_id = Len(files')}
             /\ Cardinality(chunks' \ chunks) = files[1].chunk_count
             /\ {c.chunk_index : c \in chunks' \ chunks} = 0..(files[1].chunk_count - 1)
             /\ \A c \in chunks' \ chunks :
                  c.bot_id = PoolSeq("u1")[(c.chunk_index % PoolSize("u1")) + 1]]_vars

C16_Witness ==
  /\ resp.op = "fork" /\ resp.status = 200
  /\ Len(files) = 2 /\ files[2].forked_from_file = 1
  /\ \E c, d \in ChunksOf(2) :
       c.chunk_index = 0 /\ d.chunk_index = 1 /\ c.bot_id = "b2" /\ d.bot_id = "b1"

\* C17: a fork of file 1, successful or failed, leaves the chunk rows of file 1
\* as they were and changes nothing in its File row but fork_count.
C17_ForkLeavesSource ==
  [][(resp'.op = "fork" /\ Len(files) >= 1)
     => \A good \in 0..2 :
          Fork("u1", 1, good)
          => /\ {c \in chunks' : c.file_id = 1} = ChunksOf(1)
             /\ files'[1] = [files[1] EXCEPT !.fork_count = files'[1].fork_count]]_vars

C17_Witness ==
  /\ resp.op = "fork" /\ resp.status = 500 /\ resp.sent
  /\ Len(files) = 2 /\ files[1].fork_count = 0
  /\ Cardinality(ChunksOf(1)) = 2 /\ Cardinality(ChunksOf(2)) = 1

\* C18: any two calls released with the same token are released at least
\* RATE_LIMIT_MS apart.
C18_CallsSerialized ==
  \A k, j \in Calls :
    ( /\ k # j
      /\ throttle.pc[k] = "released" /\ throttle.pc[j] = "released"
      /\ throttle.token[k] = throttle.token[j]
      /\ throttle.released[k] <= throttle.released[j] )
    => throttle.released[j] - throttle.released[k] >= RATE_LIMIT_MS

\* C19: a stream request with a Range header for a fully stored file whose
\* chunks are all readable and delivered is answered 206 with Content-Range
\* bytes first-last/total, total the file size, 0 <= first <= last < total,
\* and a body of last - first + 1 bytes.
C19_RangeResponse ==
  [][(resp'.op = "stream" /\ Len(files) >= 1 /\ FullyStored(1)
        /\ Readable(1) = ChunksOf(1))
     => \A r \in RangeRequests :
          StreamRange("u1", 1, r[1], r[2], "ok")
          => /\ resp'.status = 206
             /\ resp'.required = files[1].file_size
             /\ 0 <= resp'.first /\ resp'.first <= resp'.last
             /\ resp'.last < resp'.required
             /\ Len(resp'.body) = resp'.last - resp'.first + 1]_vars

\* C20: a chunk upload whose selected bot has no channel is answered 400 with
\* the channel error, sends no document to Telegram and stores no chunk row;
\* this holds for the session route, the v1 chunk route and the v1 one-shot
\* upload.
C20_NoChannelNoUpload ==
  [][(resp'.op \in {"chunk", "v1chunk", "v1upload"})
     => \A sendOk \in BOOLEAN :
          /\ \A i \in 0..1 :
               ( /\ OwnedFile("u1", 1) /\ i < files[1].chunk_count
                 /\ bots[PoolSeq("u1")[(i % PoolSize("u1")) + 1]].channel_id = NoChannel
                 /\ (UploadChunk("u1", 1, i, sendOk) \/ V1UploadChunk("u1", 1, i, sendOk)) )
               => /\ resp'.status = 400
                  /\ resp'.err = "Bot channel not configured"
                  /\ ~resp'.sent
                  /\ tg' = tg /\ chunks' = chunks
          /\ ( /\ LiveByHash("u1", "h2") = {}
               /\ bots[PoolSeq("u1")[1]].channel_id = NoChannel
               /\ V1Upload("u1", "h2", "none", TRUE, sendOk) )
             => /\ resp'.status = 400
                /\ resp'.err = "Bot has no channel configured"
                /\ ~resp'.sent
                /\ tg' = tg /\ chunks' = chunks]_vars

C20_Witness ==
  /\ resp.op = "chunk" /\ resp.status = 400 /\ resp.err = "Bot channel not configured"
  /\ Len(files) = 1 /\ Len(tg) = 1
  /\ IndicesOf(1) = {0}
  /\ \E b \in Eligible("u1") : bots[b].channel_id = NoChannel

\* C21: DELETE of a bot changes nothing but that bot's is_active, which it
\* sets to 0: every bot row is otherwise as before and files, chunk rows and
\* Telegram documents are untouched; and every chunk row an upload stores
\* names a bot that is active when the upload runs.
C21_RemoveKeepsRecords ==
  [][/\ resp'.op = "removebot"
        => \A b \in {"b1", "b2"} :
             RemoveBot("u1", b)
             => /\ bots' = [bots EXCEPT ![b].is_active = FALSE]
                /\ chunks' = chunks /\ files' = files /\ tg' = tg
     /\ \A c \in chunks' \ chunks : bots[c.bot_id].is_active]_vars

\* C21 witness: b2 was removed and never re-added or probed, the chunk row of
\* index 1 stored on it before is still there, and the last request, after
\* the removal, stored index 0 on b1.
C21_Witness ==
  /\ resp.op = "chunk" /\ resp.status = 200 /\ resp.chunk_index = 0
  /\ ~bots["b2"].is_active /\ bots["b2"].health_status = "healthy"
  /\ bots["b1"].last_health_check = NULL /\ bots["b2"].last_health_check = NULL
  /\ scanOrder[1] = "b1"
  /\ \E c \in ChunksOf(1) : c.chunk_index = 1 /\ c.bot_id = "b2"
  /\ \E c \in ChunksOf(1) : c.chunk_index = 0 /\ c.bot_id = "b1"

\* C22: an upload/init request whose reads ran while no live row had its
\* (owner, hash) inserts its File row and answers 200 without the duplicate
\* flag, even when another request has inserted a live row with that
\* (owner, hash) in between; that owner and hash then have two live rows.
C22_RacingInitsBothInsert ==
  [][\A q \in Reqs :
       (pending[q].pc = "insert" /\ InitUploadInsert(q))
       => /\ resp'.op = "init" /\ resp'.status = 200 /\ ~resp'.duplicate
          /\ resp'.file_id = Len(files) + 1
          /\ Len(files') = Len(files) + 1
          /\ files'[Len(files')].user_id = pending[q].user_id
          /\ files'[Len(files')].file_hash = pending[q].file_hash
          /\ ~files'[Len(files')].is_deleted
          /\ \A f \in FileIds : files'[f] = files[f]
          /\ LiveByHash(pending[q].user_id, pending[q].file_hash) # {}
             => Cardinality({f \in 1..Len(files') :
                    /\ files'[f].user_id = pending[q].user_id
                    /\ files'[f].file_hash = pending[q].file_hash
                    /\ ~files'[f].is_deleted}) >= 2]_vars

C22_Witness ==
  /\ resp.op = "init" /\ resp.status = 200 /\ ~resp.duplicate /\ resp.file_id = 2
  /\ Cardinality(LiveByHash("u1", "h1")) = 2
  /\ Cardinality(issued) = 2
  /\ \A q \in Reqs : pending[q].pc = "idle"

\* C23: an upload/init of a new hash, through either API, made while the
\* caller has no active healthy bot is answered with an error status and
\* inserts no File row; so is a session upload/init that names a folder of
\* another user.
C23_InitFailsWithoutPool ==
  [][(resp'.op \in {"init", "v1init"})
     => \A h \in {"h1", "h2"} :
          /\ \A folder \in Folders :
               ( /\ LiveByHash("u1", h) = {}
                 /\ (PoolSize("u1") = 0 \/ folder = "foreign")
                 /\ InitUpload("u1", h, FALSE, "video/mp4", folder) )
               => resp'.status >= 400 /\ files' = files
          /\ ( /\ LiveByHash("u1", h) = {}
               /\ PoolSize("u1") = 0
               /\ V1InitUpload("u1", h, TRUE) )
             => resp'.status >= 400 /\ files' = files]_vars

\* C24: a health probe of one's own bot stores healthy after a successful
\* identity check, rate_limited after a 429 failure, banned after a 401
\* failure and unknown after any other failure, stores the time of the probe
\* in last_health_check, and changes no other field of the bot, no other bot,
\* no file and no chunk row.
C24_ProbeClassifies ==
  [][(resp'.op = "health")
     => \A b \in {"b1", "b2"}, m \in ProbeOutcomes :
          HealthProbe("u1", b, m)
          => /\ bots' = [bots EXCEPT
                          ![b].health_status =
                            IF m.kind = "ok" THEN "healthy"
                            ELSE IF m.kind = "429" THEN "rate_limited"
                            ELSE IF m.kind = "401" THEN "banned"
                            ELSE "unknown",
                          ![b].last_health_check = now]
             /\ resp'.status = 200
             /\ files' = files /\ chunks' = chunks /\ tg' = tg]_vars

C24_Witness ==
  /\ resp.op = "health" /\ resp.status = 200 /\ resp.err = "rate_limited"
  /\ bots["b2"].health_status = "rate_limited" /\ bots["b2"].last_health_check = 2
  /\ bots["b1"].health_status = "banned" /\ bots["b1"].last_health_check = 1
  /\ Cardinality(ChunksOf(1)) = 2

\* C25: a health probe that finds a healthy bot of the pool healthy again
\* leaves the bot selected for every chunk index as it was.
C25_ProbeKeepsPlacement ==
  [][(resp'.op = "health")
     => \A b \in {"b1", "b2"} :
          ( /\ b \in Eligible("u1")
            /\ HealthCheck("u1", b, "healthy") )
          => /\ Eligible("u1")' = Eligible("u1")
             /\ \A i \in 0..1 : SelectedBot("u1", i)' = SelectedBot("u1", i)]_vars

\* C26: a download of a fully stored file whose chunks are all readable
\* returns the payload, that is the chunks joined in ascending chunk_index
\* order, in whatever order the chunk rows were written.
C26_ReadInIndexOrder ==
  [][(resp'.op = "download" /\ Len(files) >= 1 /\ FullyStored(1)
        /\ Readable(1) = ChunksOf(1))
     => \A dl \in DownloadOutcomes :
          (dl = "ok" /\ Download("u1", 1, dl, FALSE))
          => /\ resp'.status = 200
             /\ resp'.body = Payload(files[1].file_hash)]_vars

\* C26 witness: index 2 was written first and index 0 last, and the download
\* returned the payload.
C26_Witness ==
  /\ resp.op = "download" /\ resp.status = 200 /\ resp.body = <<1, 2, 3, 4, 5>>
  /\ \E c \in ChunksOf(1) : c.chunk_index = 2 /\ c.telegram_message_id = 1
  /\ \E c \in ChunksOf(1) : c.chunk_index = 0 /\ c.telegram_message_id = 3

\* C27: a chunk row is created once per (file_id, chunk_index), in an upload
\* or fork step and naming a document sent in that very step; afterwards no
\* step removes the row, and the only field a step changes is
\* telegram_file_id, in a download whose fetch of that chunk failed and whose
\* message_id fallback succeeded.
C27_ChunkRecordLifecycle ==
  [][ /\ \A c \in chunks : \E d \in chunks' :
            /\ d = [c EXCEPT !.telegram_file_id = d.telegram_file_id]
            /\ d.telegram_file_id # c.telegram_file_id
                 => /\ resp'.op = "download"
                    /\ \E dl \in DownloadOutcomes :
                         /\ FetchFails(c, dl)
                         /\ Download(files[c.file_id].user_id, c.file_id, dl, TRUE)
      /\ \A d \in chunks' :
            (\A c \in chunks : ~(c.file_id = d.file_id /\ c.chunk_index = d.chunk_index))
            => /\ resp'.op \in {"chunk", "fork"}
               /\ d.telegram_message_id \in (Len(tg) + 1)..Len(tg')
               /\ d.telegram_file_id = d.telegram_message_id
               /\ tg'[d.telegram_message_id].bot = d.bot_id
               /\ Len(tg'[d.telegram_message_id].doc) = d.chunk_size
      /\ \A c, d \in chunks' :
            (c.file_id = d.file_id /\ c.chunk_index = d.chunk_index) => c = d ]_vars

\* C27 witness: after a repairing download and the delete of the file both
\* rows are still there; the row of index 0
\* carries a new telegram_file_id and its first telegram_message_id.
C27_Witness ==
  /\ resp.op = "delete" /\ resp.status = 200
  /\ Len(files) >= 1 /\ files[1].is_deleted
  /\ Cardinality(ChunksOf(1)) = 2
  /\ \E c \in ChunksOf(1) :
        c.chunk_index = 0 /\ c.telegram_file_id # c.telegram_message_id
  /\ \E c \in ChunksOf(1) :
        c.chunk_index = 1 /\ c.telegram_file_id = c.telegram_message_id

\* C28: in the calls of one download every chunk has at most one
\* getFileFromMessage call and at most two downloadFile calls, and each
\* getFileFromMessage call comes after a downloadFile call for the same chunk
\* that failed.
C28_RepairOnlyAfterFailedFetch ==
  resp.op = "download"
  => \A i \in {resp.calls[p].chunk_index : p \in 1..Len(resp.calls)} :
       /\ Cardinality({p \in 1..Len(resp.calls) :
                         /\ resp.calls[p].chunk_index = i
                         /\ resp.calls[p].call = "getFileFromMessage"}) <= 1
       /\ Cardinality({p \in 1..Len(resp.calls) :
                         /\ resp.calls[p].chunk_index = i
                         /\ resp.calls[p].call = "downloadFile"}) <= 2
       /\ \A p \in 1..Len(resp.calls) :
            (resp.calls[p].chunk_index = i /\ resp.calls[p].call = "getFileFromMessage")
            => \E q \in 1..(p - 1) :
                 /\ resp.calls[q].chunk_index = i
                 /\ resp.calls[q].call = "downloadFile"
                 /\ ~resp.calls[q].ok

C30_FailedForkLeavesPartial ==
  [][(resp'.op = "fork" /\ resp'.status = 500 /\ Len(files) >= 1)
     => \A good \in 0..2 :
          Fork("u1", 1, good)
          => /\ Len(tg') - Len(tg) < Cardinality(ChunksOf(1))
             /\ Len(files') = Len(files) + 1
             /\ files'[Len(files')].user_id = "u1"
             /\ files'[Len(files')].forked_from_file = 1
             /\ ~files'[Len(files')].is_deleted
             /\ {c.chunk_index : c \in {d \in chunks' : d.file_id = Len(files')}}
                  = 0..(Len(tg') - Len(tg) - 1)
             /\ \A c \in chunks' :
                  c.file_id = Len(files')
                  => c.telegram_message_id = Len(tg) + 1 + c.chunk_index
             /\ files'[1].fork_count = files[1].fork_count]_vars

\* C30 witness: the fork stopped after the first of two chunks; file 2 of u1
\* has the row of index 0 only and file 1 has never been counted as forked.
C30_Witness ==
  /\ resp.op = "fork" /\ resp.status = 500
  /\ Len(files) = 2 /\ files[2].user_id = "u1" /\ files[2].forked_from_file = 1
  /\ IndicesOf(2) = {0} /\ IndicesOf(1) = {0, 1}
  /\ Len(tg) = 3
  /\ files[1].fork_count = 0

\* C31: a fork of the fully stored file 1 in which the stored
\* telegram_file_id of a source chunk no longer resolves, while its message
\* is still in the channel and the transport does not fail, is answered 200
\* and gives the new file a chunk row for every source chunk.
C31_ForkRepairsSource ==
  [][( /\ resp'.op = "fork"
       /\ Len(files) = 1 /\ FullyStored(1)
       /\ \E c \in ChunksOf(1) : ~tg[c.telegram_file_id].live
       /\ Fork("u1", 1, Cardinality(ChunksOf(1))) )
     => /\ resp'.status = 200
        /\ Cardinality({c \in chunks' : c.file_id = 2}) = Cardinality(ChunksOf(1))]_vars

\* C32: DELETE of an own file changes nothing in the catalog but is_deleted
\* (and the updated_at stamp) of that File row: chunk rows and Telegram
\* documents stay; while the row is deleted, metadata, download and stream
\* requests for it are answered 404 without a body; and an upload/init of the
\* owner with the hash of a file whose only row is deleted is not answered
\* as a duplicate and appends a new File row.
C32_SoftDelete ==
  [][/\ resp'.op = "delete"
        => \A f \in FileIds :
             DeleteFile("u1", f)
             => /\ files' = [files EXCEPT ![f].is_deleted = TRUE,
                                          ![f].updated_at = files'[f].updated_at]
                /\ chunks' = chunks /\ tg' = tg
     /\ resp'.op \in {"meta", "download", "stream"}
        => \A f \in FileIds :
             ( /\ files[f].is_deleted
               /\ \/ GetFile("u1", f) \/ Download("u1", f, "ok", FALSE)
                  \/ StreamRange("u1", f, 0, 1, "ok") \/ StreamFull("u1", f, "ok") )
             => /\ resp'.status = 404 /\ resp'.err = "File not found"
                /\ resp'.body = <<>>
     /\ ( /\ resp'.op = "init"
          /\ \E f \in FileIds : files[f].user_id = "u1" /\ files[f].file_hash = "h1"
          /\ \A f \in FileIds :
               (files[f].user_id = "u1" /\ files[f].file_hash = "h1")
               => files[f].is_deleted
          /\ InitUpload("u1", "h1", FALSE, "video/mp4", "none") )
        => /\ ~resp'.duplicate /\ resp'.status = 200
           /\ Len(files') = Len(files) + 1
           /\ resp'.file_id = Len(files')
           /\ ~files'[Len(files')].is_deleted]_vars

\* C32 witness: file 1 was fully uploaded and deleted, its two chunk rows are
\* still there, a download of it has been answered 404 after file 2 was
\* created under the same hash.
C32_Witness ==
  /\ Len(files) = 2 /\ files[1].is_deleted /\ ~files[2].is_deleted
  /\ files[2].file_hash = files[1].file_hash
  /\ IndicesOf(1) = {0, 1}
  /\ resp.op = "download" /\ resp.status = 404 /\ resp.err = "File not found"

\* C33: a download, or a stream request without a Range header, that is
\* answered 200 carries a body of exactly file_size bytes.
C33_FullReadComplete ==
  [][(resp'.op \in {"download", "stream"} /\ resp'.status = 200)
     => \A f \in FileIds :
          ( \/ Download("u1", f, "ok", FALSE)
            \/ StreamFull("u1", f, "ok") )
          => Len(resp'.body) = files[f].file_size]_vars

\* C34: while a non-deleted File row of the owner with the hash exists whose
\* chunks are not all stored, an upload/init or a v1 upload of that owner
\* with that hash is answered duplicate with the id of that row and changes
\* neither files nor chunks; once every such row is deleted the request is
\* not answered as a duplicate.
C34_IncompleteBlocksReupload ==
  [][(resp'.op \in {"init", "v1upload"})
     => \A sendOk \in BOOLEAN :
          ( \/ InitUpload("u1", "h1", FALSE, "video/mp4", "none")
            \/ V1Upload("u1", "h1", "none", TRUE, sendOk) )
          => /\ \A f \in FileIds :
                  ( /\ files[f].user_id = "u1" /\ files[f].file_hash = "h1"
                    /\ ~files[f].is_deleted
                    /\ ~FullyStored(f) )
                  => /\ resp'.duplicate
                     /\ resp'.file_id = f
                     /\ files' = files /\ chunks' = chunks
             /\ (\A f \in FileIds :
                   (files[f].user_id = "u1" /\ files[f].file_hash = "h1")
                   => files[f].is_deleted)
                => ~resp'.duplicate]_vars

\* C34 witness: an upload/init was answered duplicate with the id of a file
\* that has one of its two chunks, after an earlier file of the same hash was
\* deleted.
C34_Witness ==
  /\ resp.op = "init" /\ resp.duplicate /\ resp.file_id = 2
  /\ Len(files) = 2 /\ files[1].is_deleted /\ ~files[2].is_deleted
  /\ IndicesOf(2) = {0} /\ files[2].chunk_count = 2

C36_FailedSendLeavesCatalog ==
  [][(resp'.op = "chunk" /\ resp'.sent)
     => \A i \in 0..1 :
          UploadChunk("u1", 1, i, FALSE)
          => /\ resp'.status = 500 /\ resp'.err = "Failed to upload chunk"
             /\ chunks' = chunks
             /\ files' = files]_vars

\* C36 witness: index 0 is stored, the upload of index 1 has just failed in
\* sendDocument and index 1 has no row.
C36_Witness ==
  /\ resp.op = "chunk" /\ resp.status = 500 /\ resp.sent
  /\ Len(files) = 1 /\ IndicesOf(1) = {0} /\ Len(tg) = 1

\* C37: with chunk-upload requests for the same (file_id, chunk_index) in
\* flight at once, no file has two rows of one index, no file has more rows
\* than its chunk_count, and every file whose completion was answered with
\* success has a row for every index 0 .. chunk_count - 1.
C37_RacingChunksKeepCount ==
  \A f \in FileIds :
    /\ \A c, d \in ChunksOf(f) : c.chunk_index = d.chunk_index => c = d
    /\ Cardinality(ChunksOf(f)) <= files[f].chunk_count
    /\ f \in completed => (0..(files[f].chunk_count - 1)) \subseteq IndicesOf(f)

\* C38: a chunk upload, complete, metadata, download, stream, update or
\* delete request of u2 that names the file of u1 is answered 404 "File not
\* found" without a body, and the step changes no File row, no chunk row and
\* no Telegram document.
C38_ForeignFileNotFound ==
  [][(resp'.op \in {"chunk", "complete", "meta", "download", "stream", "update",
                    "delete"}
        /\ Len(files) >= 1 /\ files[1].user_id = "u1")
     => (( \/ \E i \in 0..1 : UploadChunk("u2", 1, i, TRUE)
          \/ CompleteUpload("u2", 1)
          \/ GetFile("u2", 1)
          \/ Download("u2", 1, "ok", FALSE)
          \/ StreamRange("u2", 1, 0, 1, "ok")
          \/ StreamFull("u2", 1, "ok")
          \/ \E pub \in BOOLEAN : UpdateFile("u2", 1, pub)
          \/ DeleteFile("u2", 1) )
        => /\ resp'.status = 404 /\ resp'.err = "File not found"
           /\ resp'.body = <<>>
           /\ files' = files /\ chunks' = chunks /\ tg' = tg
           /\ completed' = completed)]_vars

\* C38 witness: the fully stored, completed file of u1 is still there after a
\* delete request for it was answered 404, which only the request of u2 is.
C38_Witness ==
  /\ resp.op = "delete" /\ resp.status = 404
  /\ Len(files) = 1 /\ files[1].user_id = "u1" /\ ~files[1].is_deleted
  /\ IndicesOf(1) = {0, 1} /\ 1 \in completed

\* C39: for every share link with a download limit, download_count is at
\* most max_downloads and at most max_downloads file responses have been
\* served through the link.
C39_ShareLimitHolds ==
  \A s \in ShareIds :
    shares[s].max_downloads # NULL
      => /\ shares[s].download_count <= shares[s].max_downloads
         /\ shares[s].served <= shares[s].max_downloads

\* C40: a live file of u1 that the session path completed (complete answered
\* ok, indices 0..chunk_count-1 stored) is answered by the v1 download with
\* status 200 and the bytes of the file; and a live file whose whole content
\* the v1 upload sent to Telegram is answered by the session download with
\* status 200 and the bytes of the file.
C40_PathsEquivalent ==
  [][\A f \in FileIds :
       /\ (resp'.op = "v1download" /\ f \in completed /\ ~files[f].is_deleted
             /\ V1Download("u1", f))
            => /\ resp'.status = 200
               /\ resp'.body = Payload(files[f].file_hash)
       /\ (resp'.op = "download" /\ files[f].file_hash = "h2" /\ ~files[f].is_deleted
             /\ (\E m \in 1..Len(tg) : tg[m].doc = Payload("h2"))
             /\ Download("u1", f, "ok", FALSE))
            => /\ resp'.status = 200
               /\ resp'.body = Payload(files[f].file_hash)]_vars

====
